---- MODULE Spec2Model ----
(***************************************************************************)
(* Verification model of the RL4 snapshot extension (RCEP protocol).       *)
(*                                                                         *)
(* Three specifications share this module:                                 *)
(*   Spec          the capture orchestrator of the content script: the     *)
(*                 startSnapshotJob handler, runSnapshotJob, the hydration *)
(*                 loop, deep capture, the heartbeat, the mutation         *)
(*                 observer and soft shutdown.  Message lists are          *)
(*                 represented by their lengths, the only thing these      *)
(*                 functions read from them.                               *)
(*   SpecReconcile the reconciler and the session: scanAndSyncMessages,    *)
(*                 onApiEvent, ensureSessionId over real message lists.    *)
(*   SpecGraph     the mapping extraction of the network adapter over      *)
(*                 small parent-pointer graphs.                            *)
(* An asynchronous function is one action per stretch of code between two  *)
(* awaits; the position is kept in a pc variable.                          *)
(***************************************************************************)
EXTENDS Integers, Sequences, FiniteSets, TLC

(***************************************************************************)
(* Bounds of the model.                                                    *)
(***************************************************************************)
MaxRequests == 2        \* startSnapshotJob requests sent in one behaviour
MaxLen == 1             \* longest message list, as a length, in Spec
HydrateMaxTicks == 4    \* DEEP_HYDRATE_MAX_MS, in clock ticks of one pulse wait
MaxNoGrowthChatGPT == 3 \* maxNoGrowth for chatgpt (25 in the source), scaled
MaxNoGrowthOther == 2   \* maxNoGrowth for the other providers (4), scaled
DeepMaxTicks == 5       \* DEEP_CAPTURE_MAX_MS, in iterations of the scan loop
MaxY == 4               \* bottom of the scroll range, in steps of deep capture

Null == "null"

Providers == {"chatgpt", "gemini", "claude"}

VARIABLES
  \* ---- environment of the content script
  provider,               \* getProvider(): fixed by the host name of the tab
  chromeAlive,            \* chrome.runtime.id present: the context is valid
  \* ---- module-level state of the content script (part_003:67-81, 572)
  observer,               \* the page MutationObserver is connected
  debounceTimer,          \* the debounce timeout is armed
  progressHeartbeatTimer, \* the heartbeat interval is armed
  deepCaptureInProgress,
  captureIdActive,
  snapshotJobRunning,
  jobStrategy,
  rl4ContextInvalidated,
  \* ---- chrome.storage.local
  progressRec,            \* CAPTURE_PROGRESS
  lastSnapshot,           \* LAST_SNAPSHOT: captureId of the job that saved it
  storedLen,              \* CURRENT_MESSAGES.length
  apiLen,                 \* apiMessagesCache.length
  \* ---- the running runSnapshotJob
  jobPc,                  \* position of runSnapshotJob
  jobErr,                 \* the exception travelling to the catch block
  hyd,                    \* locals of hydrateChatHistory
  dc,                     \* locals of deepCaptureConversation
  scrollPos,              \* scrollTop of the conversation: 0 is the top, MaxY the bottom
  mutScan,                \* position of the scan started by the debounce timer
  \* ---- observation of the protocol
  nextReq,                \* number of startSnapshotJob requests sent so far
  responses,              \* request -> response of the onMessage listener
  runningJobs,            \* runSnapshotJob invocations started and not ended
  startedFor,             \* requests for which runSnapshotJob was invoked
  lateWrites,             \* storage keys some step tried to set after softShutdown
  \* ---- the reconciler and the session (SpecReconcile)
  convUrl,                \* getConversationIdFromUrl(): the conversation of the tab's URL
  CURRENT_CONV_ID,        \* chrome.storage.local slots of the session
  CURRENT_SESSION_ID,
  CURRENT_MESSAGES,
  apiMessagesCache,       \* the in-memory network message cache
  procs,                  \* locals and position of each asynchronous handler
  storageQ,               \* handlers awaiting a chrome.storage promise, oldest first
  netInflight,            \* conversations whose network responses may still arrive
  scenario,               \* the input that varies in the behaviour
  extAppended,            \* paths that appended a strict extension of the last entry
  budgetHit,              \* the cache budget was crossed since the last reset
  acceptedAfterHit,       \* a candidate was accepted after the budget was crossed
  markedPartial,          \* partial_budget_reached was written since the last reset
  \* ---- the mapping extraction (SpecGraph)
  gr,                     \* the conversation JSON, the extractor applied, its output
  \* ---- the clock of the progress channel (SpecProgress)
  clock,                  \* Date.now(), lastProgressWriteAt, the interval, the last writes
  \* ---- the choice of the message source (SpecPick)
  pick,                   \* what each adapter produced, and the list the job picked
  \* ---- the snapshot generator (SpecGen)
  gen,                    \* the generator: its input, its clock, its position, the artifact
  \* ---- the integrity seal (SpecSeal)
  seal,                   \* the key store, the stored snapshot, the tabs that seal
  \* ---- the onMessage listener (SpecListener)
  lsn,                    \* state of the listener and the responses it sent
  \* ---- the popup's progress poll (SpecPoll)
  poll,                   \* the popup's poll timer, the job it waits for, the record and the time
  \* ---- the dedup signatures (SpecSignature)
  dd,                     \* two contents of one role and their signatures
  \* ---- extractInsights (SpecInsights)
  ins,                    \* the sentences left to read and the insights pushed
  \* ---- overlapping calls of ensureSessionId (SpecEnsure)
  ens                     \* the stored session, the clock and the calls in flight

envVars == <<provider, chromeAlive>>
flagVars == <<observer, debounceTimer, progressHeartbeatTimer, deepCaptureInProgress,
              captureIdActive, snapshotJobRunning, jobStrategy, rl4ContextInvalidated>>
storeVars == <<progressRec, lastSnapshot, storedLen, apiLen>>
jobVars == <<jobPc, jobErr, hyd, dc, scrollPos, mutScan>>
obsVars == <<nextReq, responses, runningJobs, startedFor>>
reconVars == <<convUrl, CURRENT_CONV_ID, CURRENT_SESSION_ID, CURRENT_MESSAGES,
               apiMessagesCache, procs, storageQ, netInflight, scenario, extAppended,
               budgetHit, acceptedAfterHit, markedPartial>>
otherVars == <<reconVars, gr, clock, pick, gen, seal, lsn, poll, dd, ins, ens>>
vars == <<envVars, flagVars, storeVars, jobVars, obsVars, lateWrites, otherVars>>

(***************************************************************************)
(* The progress record.                                                    *)
(***************************************************************************)
NoProgress == [captureId |-> Null, phase |-> Null, status |-> Null, error |-> Null]

\* setCaptureProgress: next = {...prev, ...patch}; the get comes first and
\* throws in a dead context, so that nothing is set then.
SetCaptureProgress(prev, patch) ==
  [k \in DOMAIN prev |-> IF k \in DOMAIN patch THEN patch[k] ELSE prev[k]]

Patch(cap, phase, status) == [captureId |-> cap, phase |-> phase, status |-> status]

\* What one call of setCaptureProgress leaves in storage, and the keys it sets.
ProgressAfter(patch) == IF chromeAlive THEN SetCaptureProgress(progressRec, patch) ELSE progressRec
ProgressKeys == IF chromeAlive THEN {"CAPTURE_PROGRESS"} ELSE {}

\* A step calls chrome.storage.local.set for these keys: the calls made once
\* softShutdown has run are recorded.
Writes(keys) ==
  lateWrites' = IF rl4ContextInvalidated THEN lateWrites \cup keys ELSE lateWrites

\* isExtensionContextAlive
isExtensionContextAlive == ~rl4ContextInvalidated /\ chromeAlive

HydInit == [noGrowth |-> 0, elapsed |-> 0, prevMsgCount |-> 0, prevApiCount |-> 0,
            restored |-> FALSE, finalScans |-> 0, outcome |-> "none", exitAtTop |-> TRUE]
DcInit == [y |-> 0, lastAdded |-> -1, stableIters |-> 0, elapsed |-> 0, prevLen |-> 0]

maxNoGrowth == IF provider = "chatgpt" THEN MaxNoGrowthChatGPT ELSE MaxNoGrowthOther

JobInit ==
  /\ provider \in Providers
  /\ chromeAlive = TRUE
  /\ observer = TRUE
  /\ debounceTimer = FALSE
  /\ progressHeartbeatTimer = FALSE
  /\ deepCaptureInProgress = FALSE
  /\ captureIdActive = Null
  /\ snapshotJobRunning = FALSE
  /\ jobStrategy = Null
  /\ rl4ContextInvalidated = FALSE
  /\ progressRec = NoProgress
  /\ lastSnapshot = Null
  /\ storedLen \in 0..1
  /\ apiLen = 0
  /\ jobPc = "idle"
  /\ jobErr = Null
  /\ hyd = HydInit
  /\ dc = DcInit
  /\ scrollPos = MaxY
  /\ mutScan = "none"
  /\ nextReq = 0
  /\ responses = <<>>
  /\ runningJobs = 0
  /\ startedFor = {}
  /\ lateWrites = {}

\* the handlers of the reconciler, none of them running
Procs == {"scan", "route", "api", "fetch"}
ProcIdle == [pc |-> "idle"]

\* the reconciler at rest, with an empty store
ReconcileOff ==
  /\ convUrl = "A"
  /\ CURRENT_CONV_ID = Null
  /\ CURRENT_SESSION_ID = Null
  /\ CURRENT_MESSAGES = <<>>
  /\ apiMessagesCache = <<>>
  /\ procs = [p \in Procs |-> ProcIdle]
  /\ storageQ = <<>>
  /\ netInflight = {}
  /\ scenario = "page"
  /\ extAppended = {}
  /\ budgetHit = FALSE
  /\ acceptedAfterHit = FALSE
  /\ markedPartial = FALSE

\* no conversation JSON under extraction
GrIdle == [pc |-> "off"]

\* the progress channel before anything was written.  lastProgressWriteAt
\* is 0 in the source (part_003:75) and Date.now() is the epoch time: the
\* first throttled emission always passes.  The clock here starts at 0, so
\* the variable starts one throttle window before it.
ThrottleMs == 2          \* the 250 ms of emitCaptureProgress, in clock units
HeartbeatMs == 4         \* the 2000 ms of startProgressHeartbeat, in clock units
MaxNow == 9              \* the clock stops here

\* the adapters of a ChatGPT capture: the surgical fetch, the embedded
\* state, the intercepted network chunks, the page (hydration and deep
\* capture)
Adapters == {"fetch", "embedded", "network", "dom"}

\* no adapter has produced anything, nothing is picked
PickInit == [reported |-> [a \in Adapters |-> 0], produced |-> {}, messages |-> <<>>]

TRANSCRIPT_MAX_MESSAGES == 2   \* 1500 in the source
TRANSCRIPT_MAX_CHARS == 4      \* 1_200_000 in the source
GenBudget == 2                 \* the generator's default budget, 2000 ms in the source
MaxStage == 3                  \* the longest an extraction stage takes
MaxGenMsgs == 3                \* the longest list handed to the generator
MsgLens == {1, 3}              \* the lengths of a message's content

MaxFound == 2                  \* the most entries an extraction finds

\* the budget of the generator (part_004:428-432)
maxTopics == 7
maxDecisions == 5
maxInsights == 10

\* nothing has been extracted
NoneFound == [topics |-> 0, decisions |-> 0, insights |-> 0]

\* generate has not returned
NoArtifact == [partial |-> FALSE, partial_reason |-> Null, fields |-> {}, stages |-> {},
               counts |-> NoneFound]

\* the deadline has not been found passed
NotLate == [stage |-> Null, done |-> {}]

\* no generator has been constructed
GenInit == [pc |-> "none", lens |-> <<>>, requested |-> FALSE, wantsSeal |-> FALSE,
            options |-> [includeTranscript |-> FALSE, outputMode |-> "digest"],
            now |-> 0, deadline |-> 0, done |-> {}, found |-> NoneFound, late |-> NotLate,
            artifact |-> NoArtifact]

MaxSnapshots == 2              \* the jobs that reach the seal
MaxReseals == 1                \* the merges of blocks

\* the tabs of one site whose content scripts seal
Tabs == {"tab1", "tab2"}

\* no snapshot; a snapshot is the revision of its content, the blocks merged
\* into it, its checksum field and its signature field
NoSnapshot == [present |-> FALSE, rev |-> 0, blocks |-> FALSE, checksum |-> <<0, FALSE>>,
               signature |-> [present |-> FALSE, signed_payload |-> <<>>, key_id |-> 0]]

\* the key store is empty and no snapshot is stored
SealInit == [db |-> 0, made |-> 0, keyIds |-> {}, stored |-> NoSnapshot, revs |-> 0,
             reseals |-> 0, blocksStatus |-> Null, resealing |-> {},
             tabs |-> [t \in Tabs |-> [pc |-> "idle", snap |-> NoSnapshot, key |-> 0]]]

MaxAsked == 2           \* requests the listener answers in a behaviour

\* no error member in a response
NoError == [kind |-> "none", code |-> Null, message |-> Null]

\* no CAPTURE_PROGRESS record
NoRec == [captureId |-> Null, tabId |-> 0, status |-> Null, updatedAt |-> 0]

ListenerInit ==
  [snapshotJobRunning |-> FALSE, rl4BlocksArmed |-> FALSE, rl4BlocksCaptured |-> FALSE,
   blocksStatus |-> Null, responses |-> <<>>, deep |-> FALSE,
   captureIdActive |-> Null, jobTabId |-> 0, jobStrategy |-> Null,
   chatgptChunkSeen |-> {}, progress |-> NoRec]

MaxPollNow == 4         \* the popup's time runs from 0 to MaxPollNow
FRESH_MS == 2           \* 10 * 60_000 ms, scaled to the clock

PollInit ==
  [pollTimer |-> FALSE, captureId |-> Null, stoppedOn |-> Null, job |-> "none",
   rec |-> NoRec, now |-> 0]

MaxSigLen == 3          \* characters of a content given to signature
LegacySigHead == 2      \* the 300 characters of the earlier signature, scaled

DedupInit == [pc |-> "idle", by |-> Null, role |-> Null, a |-> <<>>, b |-> <<>>, sa |-> <<>>, sb |-> <<>>]

MaxSentences == 4       \* sentences of the messages given to extractInsights
INSIGHTS_MAX == 2       \* the 10 of extractInsights, scaled

InsightsInit == [pc |-> "idle", rest |-> <<>>, insights |-> 0]

MaxEnsNow == 2          \* the clock of new Date() runs from 0 to MaxEnsNow
MaxNavigations == 1     \* changes of conversation in a behaviour
MaxEnsCalls == 3        \* calls of ensureSessionId in a behaviour

Callers == {"boot", "api"}

\* no stored session id
NoSid == <<>>

CallIdle == [pc |-> "idle", convId |-> Null, current |-> NoSid, currentConv |-> Null,
             sid |-> NoSid, epoch |-> 0]

EnsureInit ==
  [convUrl |-> "c1", now |-> 0, CURRENT_SESSION_ID |-> NoSid, CURRENT_CONV_ID |-> Null,
   calls |-> [c \in Callers |-> CallIdle], epoch |-> 0, started |-> 0,
   returned |-> {}, created |-> {}]

ClockInit == [now |-> 0, lastProgressWriteAt |-> 0 - ThrottleMs, beatAt |-> 0, writes |-> <<>>]

Init == JobInit /\ ReconcileOff /\ gr = GrIdle /\ clock = ClockInit /\ pick = PickInit /\ gen = GenInit /\ seal = SealInit /\ lsn = ListenerInit /\ poll = PollInit /\ dd = DedupInit /\ ins = InsightsInit /\ ens = EnsureInit

(***************************************************************************)
(* onMessage listener, action startSnapshotJob (part_003:3239-3269),       *)
(* together with the synchronous head of runSnapshotJob (370-380), which   *)
(* the listener runs before it answers.                                    *)
(***************************************************************************)
\* the captureId of the n-th request
CapId(n) == ToString(n)

JobAlreadyRunning == [ok |-> FALSE, code |-> "JOB_ALREADY_RUNNING"]
Started(cap) == [ok |-> TRUE, code |-> cap]

\* (the guard reading the flag of the capture phase instead of the mutex)
StartRefused_WrongFlag == deepCaptureInProgress

\* The guard of the listener: is the request refused?
StartRefused == snapshotJobRunning

\* runSnapshotJob up to its first await: the flag is raised before anything
\* is awaited.
RunSnapshotJobHead ==
  /\ snapshotJobRunning' = TRUE
  /\ progressHeartbeatTimer' = TRUE
  /\ jobPc' = "starting"
  /\ jobErr' = Null
  /\ runningJobs' = runningJobs + 1

\* (a message of the extension reaches the listener only while the context
\* of the content script is valid)
StartSnapshotJob ==
  /\ nextReq < MaxRequests
  /\ chromeAlive
  /\ nextReq' = nextReq + 1
  /\ LET cap == CapId(nextReq + 1)
         busy == jobPc # "idle"
     IN IF StartRefused
        THEN /\ responses' = Append(responses, [resp |-> JobAlreadyRunning, busy |-> busy])
             /\ Writes({})
             /\ UNCHANGED <<envVars, flagVars, storeVars, jobVars, runningJobs, startedFor>>
        ELSE /\ responses' = Append(responses, [resp |-> Started(cap), busy |-> busy])
             /\ captureIdActive' = cap
             /\ jobStrategy' = Null
             \* clearCaptureProgress, then emitCaptureProgress(starting, force)
             /\ progressRec' = IF chromeAlive
                               THEN SetCaptureProgress(NoProgress, Patch(cap, "starting", "starting"))
                               ELSE progressRec
             /\ Writes(ProgressKeys)
             /\ RunSnapshotJobHead
             /\ startedFor' = startedFor \cup {cap}
             /\ UNCHANGED <<envVars, observer, debounceTimer, deepCaptureInProgress,
                            rl4ContextInvalidated, lastSnapshot, storedLen, apiLen,
                            hyd, dc, scrollPos, mutScan>>
  /\ UNCHANGED otherVars


(***************************************************************************)
(* softShutdown (part_003:584-597).                                        *)
(***************************************************************************)
softShutdown ==
  /\ rl4ContextInvalidated' = TRUE
  /\ debounceTimer' = FALSE
  /\ observer' = FALSE
  /\ progressHeartbeatTimer' = FALSE

shutVars == <<observer, debounceTimer, progressHeartbeatTimer, rl4ContextInvalidated>>

(***************************************************************************)
(* scanAndSyncMessages (part_003:2461-2592) once it is past its liveness   *)
(* check, seen through the lengths of the lists.  o is what the awaited    *)
(* part does:                                                              *)
(*   "ctx"    a chrome call throws 'Extension context invalidated': the    *)
(*            catch block runs softShutdown and the scan returns;          *)
(*   "threw"  another error: the catch block rethrows it;                  *)
(*   "empty"  no message node was parsed: nothing is saved;                *)
(*   "ok"     n messages are saved; emit tells whether the throttle of     *)
(*            emitCaptureProgress lets the progress write through.         *)
(* In append mode the list never shrinks; in replace mode it takes the     *)
(* length of the parsed page.                                              *)
(***************************************************************************)
ScanOutcomes == {"ok", "empty", "threw", "ctx"}

ScanLens(append) == IF append THEN {n \in 1..MaxLen : n >= storedLen} ELSE 1..MaxLen

scanAndSyncMessages(o, n, emit, append) ==
  /\ o \in ScanOutcomes
  /\ (o = "ctx") = ~chromeAlive
  /\ IF o = "ctx" THEN softShutdown ELSE UNCHANGED shutVars
  /\ storedLen' = IF o = "ok" THEN n ELSE storedLen
  /\ o = "ok" => n \in ScanLens(append)
  /\ o # "ok" => n = 0
  /\ emit => o \in {"ok", "empty"}
  /\ progressRec' =
       IF emit
       THEN SetCaptureProgress(progressRec,
              Patch(captureIdActive,
                    IF o = "ok" /\ append THEN "scan_append" ELSE "scan",
                    IF o = "ok" THEN "capturing" ELSE "no_messages"))
       ELSE progressRec
  /\ Writes((IF o = "ok" THEN {"CURRENT_MESSAGES"} ELSE {})
            \cup (IF emit THEN {"CAPTURE_PROGRESS"} ELSE {}))

(***************************************************************************)
(* runSnapshotJob (part_003:370-550).                                      *)
(***************************************************************************)
\* An exception reaches the catch block of runSnapshotJob: the inner finally
\* lowers deepCaptureInProgress and the error record is emitted.
JobThrow(err) ==
  /\ jobErr' = err
  /\ deepCaptureInProgress' = FALSE
  /\ jobPc' = "emit_error"

\* hydrateChatHistory, head of the while loop (part_003:2925) and the code
\* after the loop up to its sleep (3037-3039).  h is the record of locals
\* after the pulse just evaluated.
HydLoopHead(h) ==
  IF h.elapsed < HydrateMaxTicks /\ h.noGrowth < maxNoGrowth
  THEN \* scrollUpPulse, then wait for a mutation or the timeout
       /\ scrollPos' = 0
       /\ hyd' = h
       /\ jobPc' = "hyd_wait"
  ELSE \* scrollToBottom, sleep(500)
       /\ scrollPos' = MaxY
       /\ hyd' = [h EXCEPT !.restored = TRUE, !.exitAtTop = (scrollPos = 0)]
       /\ jobPc' = "hyd_sleep"

\* first await done: the starting record is written, the capture begins
JobStarting ==
  /\ jobPc = "starting"
  /\ progressRec' = ProgressAfter(Patch(captureIdActive, "starting", "starting"))
  /\ Writes(ProgressKeys)
  /\ deepCaptureInProgress' = TRUE
  /\ IF provider = "chatgpt"
     THEN jobPc' = "fetch" /\ UNCHANGED jobStrategy
     ELSE /\ jobStrategy' = "dom"
          /\ jobPc' = IF provider = "gemini" THEN "emit_hydrate" ELSE "emit_scan"
  /\ UNCHANGED <<envVars, shutVars, captureIdActive, snapshotJobRunning, lastSnapshot,
                 storedLen, apiLen, jobErr, hyd, dc, scrollPos, mutScan, obsVars, otherVars>>

\* tryFetchChatGPTConversation (part_003:1246-1525) resolves: n messages,
\* 0 for every failure (network error, not ok, parse failure, dead context).
JobFetch ==
  /\ jobPc = "fetch"
  /\ \E n \in 0..MaxLen :
       /\ n > 0 => chromeAlive
       /\ IF n > 0
          THEN /\ apiLen' = n
               /\ jobStrategy' = "chatgpt_surgical"
               /\ progressRec' = ProgressAfter(Patch(captureIdActive, "fetch", "capturing"))
               /\ Writes(ProgressKeys)
               /\ jobPc' = "emit_fetch"
          ELSE /\ jobStrategy' = "dom"
               /\ jobPc' = "embedded"
               /\ Writes({})
               /\ UNCHANGED <<apiLen, progressRec>>
  /\ UNCHANGED <<envVars, shutVars, deepCaptureInProgress, captureIdActive, snapshotJobRunning,
                 lastSnapshot, storedLen, jobErr, hyd, dc, scrollPos, mutScan, obsVars, otherVars>>

\* the fetch record is written; the inner finally runs; storage is read
JobEmitFetch ==
  /\ jobPc = "emit_fetch"
  /\ progressRec' = ProgressAfter(Patch(captureIdActive, "fetch", "capturing"))
  /\ Writes(ProgressKeys)
  /\ deepCaptureInProgress' = FALSE
  /\ jobPc' = "pick"
  /\ UNCHANGED <<envVars, shutVars, captureIdActive, snapshotJobRunning, jobStrategy,
                 lastSnapshot, storedLen, apiLen, jobErr, hyd, dc, scrollPos, mutScan,
                 obsVars, otherVars>>

\* tryExtractChatGPTEmbeddedState (part_003:1550-1632) resolves
JobEmbedded ==
  /\ jobPc = "embedded"
  /\ \E n \in 0..MaxLen :
       /\ n > 0 => chromeAlive
       /\ apiLen' = IF n > 0 THEN n ELSE apiLen
       /\ jobPc' = IF n > 0 THEN "emit_hydrate" ELSE "pagectx_wait"
  /\ Writes({})
  /\ UNCHANGED <<envVars, flagVars, progressRec, lastSnapshot, storedLen, jobErr, hyd, dc,
                 scrollPos, mutScan, obsVars, otherVars>>

\* the polling loop after requestChatGPTConversationViaPageContext ends
JobPageContextWait ==
  /\ jobPc = "pagectx_wait"
  /\ jobPc' = "emit_hydrate"
  /\ Writes({})
  /\ UNCHANGED <<envVars, flagVars, storeVars, jobErr, hyd, dc, scrollPos, mutScan,
                 obsVars, otherVars>>

\* the hydrate record is written; hydrateChatHistory starts and reads the
\* stored count
JobEmitHydrate ==
  /\ jobPc = "emit_hydrate"
  /\ progressRec' = ProgressAfter(Patch(captureIdActive, "hydrate", "capturing"))
  /\ Writes(ProgressKeys)
  /\ hyd' = [HydInit EXCEPT !.outcome = "running"]
  /\ jobPc' = "hyd_count"
  /\ UNCHANGED <<envVars, flagVars, lastSnapshot, storedLen, apiLen, jobErr, dc, scrollPos,
                 mutScan, obsVars, otherVars>>

(***************************************************************************)
(* hydrateChatHistory (part_003:2812-3042).                                *)
(***************************************************************************)
\* getStoredCount: 0 when the read throws
getStoredCount == IF chromeAlive THEN storedLen ELSE 0

HydCount ==
  /\ jobPc = "hyd_count"
  /\ \E emit \in BOOLEAN :
       /\ emit => chromeAlive
       /\ progressRec' = IF emit
                         THEN SetCaptureProgress(progressRec, Patch(captureIdActive, "hydrate", "capturing"))
                         ELSE progressRec
       /\ Writes(IF emit THEN {"CAPTURE_PROGRESS"} ELSE {})
  /\ HydLoopHead([hyd EXCEPT !.prevMsgCount = getStoredCount, !.prevApiCount = apiLen])
  /\ UNCHANGED <<envVars, flagVars, lastSnapshot, storedLen, apiLen, jobErr, dc, mutScan,
                 obsVars, otherVars>>

\* The wait for a mutation or the timeout ends.  The page may have moved the
\* view meanwhile (older history is inserted above it).  The scan of the
\* pulse is called: it returns at once when the context is not alive.
HydWait ==
  /\ jobPc = "hyd_wait"
  /\ \E y \in 0..1 :
       /\ hyd' = [hyd EXCEPT !.elapsed = hyd.elapsed + 1]
       /\ scrollPos' = y
  /\ jobPc' = IF isExtensionContextAlive THEN "hyd_scan" ELSE "hyd_eval"
  /\ Writes({})
  /\ UNCHANGED <<envVars, flagVars, storeVars, jobErr, dc, mutScan, obsVars, otherVars>>

\* scanAndSyncMessages(`${reason}-top`, {append:true}) resolves or rejects
HydScan ==
  /\ jobPc = "hyd_scan"
  /\ \E o \in ScanOutcomes, n \in 0..MaxLen, emit \in BOOLEAN :
       /\ scanAndSyncMessages(o, n, emit, TRUE)
       /\ IF o = "threw"
          THEN /\ JobThrow("scan_failed")
               /\ hyd' = [hyd EXCEPT !.outcome = "threw"]
          ELSE /\ jobPc' = "hyd_eval"
               /\ UNCHANGED <<jobErr, deepCaptureInProgress, hyd>>
  /\ UNCHANGED <<envVars, captureIdActive, snapshotJobRunning, jobStrategy, lastSnapshot,
                 apiLen, dc, scrollPos, mutScan, obsVars, otherVars>>

\* The growth signals are compared (2968-3017), the break is tested (3020),
\* the top jitter runs, and the loop condition is tested again.  domGrew
\* stands for the two signals of the page: scroll extent and node count.
HydGrew(domGrew) ==
  \/ getStoredCount > hyd.prevMsgCount
  \/ apiLen > hyd.prevApiCount
  \/ domGrew

HydAfterPulse(domGrew) ==
  IF HydGrew(domGrew)
  THEN [hyd EXCEPT !.prevMsgCount = getStoredCount, !.prevApiCount = apiLen, !.noGrowth = 0]
  ELSE [hyd EXCEPT !.noGrowth = hyd.noGrowth + 1]

HydEval ==
  /\ jobPc = "hyd_eval"
  /\ \E domGrew \in BOOLEAN, emit \in BOOLEAN :
       /\ emit => chromeAlive
       /\ progressRec' =
            IF emit
            THEN SetCaptureProgress(progressRec,
                   Patch(captureIdActive, "hydrate",
                         IF HydGrew(domGrew) THEN "capturing" ELSE "waiting"))
            ELSE progressRec
       /\ Writes(IF emit THEN {"CAPTURE_PROGRESS"} ELSE {})
       /\ HydLoopHead(HydAfterPulse(domGrew))
  /\ UNCHANGED <<envVars, flagVars, lastSnapshot, storedLen, apiLen, jobErr, dc, mutScan,
                 obsVars, otherVars>>

\* sleep(500) is over: the final scan is called
HydSleep ==
  /\ jobPc = "hyd_sleep"
  /\ hyd' = [hyd EXCEPT !.finalScans = hyd.finalScans + 1,
                        !.outcome = IF isExtensionContextAlive THEN hyd.outcome ELSE "returned"]
  /\ jobPc' = IF isExtensionContextAlive THEN "hyd_final_scan" ELSE "emit_scan"
  /\ Writes({})
  /\ UNCHANGED <<envVars, flagVars, storeVars, jobErr, dc, scrollPos, mutScan, obsVars, otherVars>>

\* scanAndSyncMessages(`${reason}-bottom`, {append:true}) resolves or rejects
HydFinalScan ==
  /\ jobPc = "hyd_final_scan"
  /\ \E o \in ScanOutcomes, n \in 0..MaxLen, emit \in BOOLEAN :
       /\ scanAndSyncMessages(o, n, emit, TRUE)
       /\ IF o = "threw"
          THEN /\ JobThrow("scan_failed")
               /\ hyd' = [hyd EXCEPT !.outcome = "threw"]
          ELSE /\ jobPc' = "emit_scan"
               /\ hyd' = [hyd EXCEPT !.outcome = "returned"]
               /\ UNCHANGED <<jobErr, deepCaptureInProgress>>
  /\ UNCHANGED <<envVars, captureIdActive, snapshotJobRunning, jobStrategy, lastSnapshot,
                 apiLen, dc, scrollPos, mutScan, obsVars, otherVars>>

\* the scan record is written; deepCaptureConversation starts: it goes to
\* the top and sleeps
JobEmitScan ==
  /\ jobPc = "emit_scan"
  /\ progressRec' = ProgressAfter(Patch(captureIdActive, "scan", "capturing"))
  /\ Writes(ProgressKeys)
  /\ dc' = [DcInit EXCEPT !.y = scrollPos]
  /\ hyd' = HydInit
  /\ scrollPos' = 0
  /\ jobPc' = "dc_sleep"
  /\ UNCHANGED <<envVars, flagVars, lastSnapshot, storedLen, apiLen, jobErr, mutScan,
                 obsVars, otherVars>>

(***************************************************************************)
(* deepCaptureConversation (part_003:2598-2671).  dc.y keeps startY.       *)
(***************************************************************************)
\* Head of the while loop (2628-2636) and the code after the loop (2669).
\* atBottom is the test y >= my - 2.
DcLoopHead(d) ==
  IF d.elapsed < DeepMaxTicks
  THEN /\ dc' = [d EXCEPT !.stableIters = IF scrollPos' >= MaxY THEN d.stableIters + 1
                                                              ELSE d.stableIters]
       /\ jobPc' = "dc_before"
       /\ UNCHANGED deepCaptureInProgress
  ELSE \* restore the scroll position, return; the inner finally runs
       /\ dc' = d
       /\ jobPc' = "pick"
       /\ deepCaptureInProgress' = FALSE

DcSleep ==
  /\ jobPc = "dc_sleep"
  /\ \E emit \in BOOLEAN :
       /\ emit => chromeAlive
       /\ progressRec' = IF emit
                         THEN SetCaptureProgress(progressRec, Patch(captureIdActive, "deep_scan", "capturing"))
                         ELSE progressRec
       /\ Writes(IF emit THEN {"CAPTURE_PROGRESS"} ELSE {})
  /\ IF isExtensionContextAlive
     THEN jobPc' = "dc_top_scan" /\ UNCHANGED <<dc, scrollPos, deepCaptureInProgress>>
     ELSE /\ scrollPos' = IF dc.elapsed < DeepMaxTicks THEN scrollPos ELSE dc.y
          /\ DcLoopHead(dc)
  /\ UNCHANGED <<envVars, shutVars, captureIdActive, snapshotJobRunning, jobStrategy,
                 lastSnapshot, storedLen, apiLen, jobErr, hyd, mutScan, obsVars, otherVars>>

\* scanAndSyncMessages('deep-top', {append:true}) resolves or rejects
DcTopScan ==
  /\ jobPc = "dc_top_scan"
  /\ \E o \in ScanOutcomes, n \in 0..MaxLen, emit \in BOOLEAN :
       /\ scanAndSyncMessages(o, n, emit, TRUE)
       /\ IF o = "threw"
          THEN JobThrow("scan_failed") /\ UNCHANGED <<dc, scrollPos>>
          ELSE /\ scrollPos' = IF dc.elapsed < DeepMaxTicks THEN scrollPos ELSE dc.y
               /\ DcLoopHead(dc)
               /\ UNCHANGED jobErr
  /\ UNCHANGED <<envVars, captureIdActive, snapshotJobRunning, jobStrategy, lastSnapshot,
                 apiLen, hyd, mutScan, obsVars, otherVars>>

\* `before` is read (2636); the scan of the iteration is called
DcBefore ==
  /\ jobPc = "dc_before"
  /\ IF ~chromeAlive
     THEN JobThrow("context_invalidated") /\ UNCHANGED dc
     ELSE /\ dc' = [dc EXCEPT !.prevLen = storedLen]
          /\ jobPc' = IF isExtensionContextAlive THEN "dc_scan" ELSE "dc_after"
          /\ UNCHANGED <<jobErr, deepCaptureInProgress>>
  /\ Writes({})
  /\ UNCHANGED <<envVars, shutVars, captureIdActive, snapshotJobRunning, jobStrategy,
                 storeVars, hyd, scrollPos, mutScan, obsVars, otherVars>>

\* scanAndSyncMessages('deep-scan', {append:true}) resolves or rejects
DcScan ==
  /\ jobPc = "dc_scan"
  /\ \E o \in ScanOutcomes, n \in 0..MaxLen, emit \in BOOLEAN :
       /\ scanAndSyncMessages(o, n, emit, TRUE)
       /\ IF o = "threw"
          THEN JobThrow("scan_failed")
          ELSE jobPc' = "dc_after" /\ UNCHANGED <<jobErr, deepCaptureInProgress>>
  /\ UNCHANGED <<envVars, captureIdActive, snapshotJobRunning, jobStrategy, lastSnapshot,
                 apiLen, hyd, dc, scrollPos, mutScan, obsVars, otherVars>>

\* `after` is read (2641); the stability counters are updated (2652-2656);
\* the view moves one step down and the loop condition is tested again.
DcStable(d, added) ==
  [d EXCEPT !.stableIters = IF added = 0 /\ d.lastAdded = 0 THEN d.stableIters + 1 ELSE 0,
            !.lastAdded = added,
            !.elapsed = d.elapsed + 1]

DcAfter ==
  /\ jobPc = "dc_after"
  /\ IF ~chromeAlive
     THEN /\ JobThrow("context_invalidated")
          /\ Writes({})
          /\ UNCHANGED <<dc, scrollPos, progressRec>>
     ELSE /\ \E emit \in BOOLEAN :
               /\ progressRec' = IF emit
                                 THEN SetCaptureProgress(progressRec, Patch(captureIdActive, "deep_scan", "capturing"))
                                 ELSE progressRec
               /\ Writes(IF emit THEN {"CAPTURE_PROGRESS"} ELSE {})
          /\ LET d == DcStable(dc, storedLen - dc.prevLen)
                 nextY == IF scrollPos + 1 > MaxY THEN MaxY ELSE scrollPos + 1
             IN IF d.stableIters >= 3
                THEN \* break: restore the scroll position, return
                     /\ scrollPos' = dc.y
                     /\ dc' = d
                     /\ jobPc' = "pick"
                     /\ deepCaptureInProgress' = FALSE
                ELSE /\ scrollPos' = IF d.elapsed < DeepMaxTicks THEN nextY ELSE dc.y
                     /\ DcLoopHead(d)
          /\ UNCHANGED jobErr
  /\ UNCHANGED <<envVars, shutVars, captureIdActive, snapshotJobRunning, jobStrategy,
                 lastSnapshot, storedLen, apiLen, hyd, mutScan, obsVars, otherVars>>

(***************************************************************************)
(* runSnapshotJob, after the capture (part_003:473-550).                   *)
(***************************************************************************)
\* the outer finally: the mutex is released, the heartbeat stopped
JobFinally ==
  /\ snapshotJobRunning' = FALSE
  /\ progressHeartbeatTimer' = FALSE
  /\ jobPc' = "idle"
  /\ runningJobs' = runningJobs - 1

\* CURRENT_MESSAGES is read (474): it throws in a dead context.  The richer
\* list is picked and the snapshot record emitted.
JobPick ==
  /\ jobPc = "pick"
  /\ IF ~chromeAlive
     THEN /\ jobErr' = "context_invalidated"
          /\ jobPc' = "emit_error"
     ELSE /\ jobPc' = "emit_snapshot"
          /\ UNCHANGED jobErr
  /\ Writes({})
  /\ dc' = DcInit
  /\ UNCHANGED <<envVars, flagVars, storeVars, hyd, scrollPos, mutScan, obsVars, otherVars>>

\* the snapshot record is written; the generator is looked up and started
JobEmitSnapshot ==
  /\ jobPc = "emit_snapshot"
  /\ progressRec' = ProgressAfter(Patch(captureIdActive, "snapshot", "generating"))
  /\ Writes(ProgressKeys)
  /\ \E available \in BOOLEAN :
       IF available
       THEN jobPc' = "generate" /\ UNCHANGED jobErr
       ELSE jobPc' = "emit_error" /\ jobErr' = "generator_missing"
  /\ UNCHANGED <<envVars, flagVars, lastSnapshot, storedLen, apiLen, hyd, dc, scrollPos,
                 mutScan, obsVars, otherVars>>

\* generate, calculateChecksum and signChecksumDeviceOnly resolve, or one of
\* them rejects; saveLastSnapshot is called
JobGenerate ==
  /\ jobPc = "generate"
  /\ \E fails \in BOOLEAN :
       IF fails
       THEN jobPc' = "emit_error" /\ jobErr' = "generate_failed"
       ELSE jobPc' = "save" /\ UNCHANGED jobErr
  /\ Writes({})
  /\ UNCHANGED <<envVars, flagVars, storeVars, hyd, dc, scrollPos, mutScan, obsVars, otherVars>>

\* saveLastSnapshot (part_003:271-281): the slot is set unless the artifact
\* is oversized; a throwing set is swallowed
JobSave ==
  /\ jobPc = "save"
  /\ \E oversized \in BOOLEAN :
       /\ Writes(IF oversized THEN {} ELSE {"LAST_SNAPSHOT"})
       /\ lastSnapshot' = IF ~oversized /\ chromeAlive THEN captureIdActive ELSE lastSnapshot
  /\ jobPc' = "emit_done"
  /\ UNCHANGED <<envVars, flagVars, progressRec, storedLen, apiLen, jobErr, hyd, dc, scrollPos,
                 mutScan, obsVars, otherVars>>

\* the done record is written and the job ends
JobEmitDone ==
  /\ jobPc = "emit_done"
  /\ progressRec' = ProgressAfter(Patch(captureIdActive, "done", "done"))
  /\ Writes(ProgressKeys)
  /\ JobFinally
  /\ UNCHANGED <<envVars, observer, debounceTimer, deepCaptureInProgress, captureIdActive,
                 jobStrategy, rl4ContextInvalidated, lastSnapshot, storedLen, apiLen, jobErr,
                 hyd, dc, scrollPos, mutScan, nextReq, responses, startedFor, otherVars>>

\* the catch block: the error record is written and the job ends
JobEmitError ==
  /\ jobPc = "emit_error"
  /\ progressRec' = ProgressAfter([captureId |-> captureIdActive, phase |-> "error",
                                   status |-> "error", error |-> jobErr])
  /\ Writes(ProgressKeys)
  /\ JobFinally
  /\ hyd' = HydInit
  /\ dc' = DcInit
  /\ UNCHANGED <<envVars, observer, debounceTimer, deepCaptureInProgress, captureIdActive,
                 jobStrategy, rl4ContextInvalidated, lastSnapshot, storedLen, apiLen, jobErr,
                 scrollPos, mutScan, nextReq, responses, startedFor, otherVars>>

(***************************************************************************)
(* Timers, observers and the environment.                                  *)
(***************************************************************************)
\* the interval of startProgressHeartbeat fires (part_003:85-89)
HeartbeatTick ==
  /\ progressHeartbeatTimer
  /\ captureIdActive # Null
  /\ Writes(ProgressKeys)
  /\ UNCHANGED <<envVars, flagVars, storeVars, jobVars, obsVars, otherVars>>

\* the callback of the page MutationObserver (part_003:3130-3138)
PageMutation ==
  /\ observer
  /\ ~deepCaptureInProgress
  /\ debounceTimer' = TRUE
  /\ Writes({})
  /\ UNCHANGED <<envVars, observer, progressHeartbeatTimer, deepCaptureInProgress,
                 captureIdActive, snapshotJobRunning, jobStrategy, rl4ContextInvalidated,
                 storeVars, jobVars, obsVars, otherVars>>

\* the debounce timeout fires: scanAndSyncMessages('mutation') is called
DebounceFire ==
  /\ debounceTimer
  /\ mutScan = "none"
  /\ debounceTimer' = FALSE
  /\ mutScan' = IF isExtensionContextAlive THEN "scanning" ELSE "none"
  /\ Writes({})
  /\ UNCHANGED <<envVars, observer, progressHeartbeatTimer, deepCaptureInProgress,
                 captureIdActive, snapshotJobRunning, jobStrategy, rl4ContextInvalidated,
                 storeVars, jobPc, jobErr, hyd, dc, scrollPos, obsVars, otherVars>>

\* the replace-mode scan of the debounce timer resolves or rejects (the
\* rejection is logged by the caller)
MutationScan ==
  /\ mutScan = "scanning"
  /\ mutScan' = "none"
  /\ \E o \in ScanOutcomes, n \in 0..MaxLen, emit \in BOOLEAN :
       scanAndSyncMessages(o, n, emit, FALSE)
  /\ UNCHANGED <<envVars, deepCaptureInProgress, captureIdActive, snapshotJobRunning,
                 jobStrategy, lastSnapshot, apiLen, jobPc, jobErr, hyd, dc, scrollPos,
                 obsVars, otherVars>>

\* onApiEvent (part_003:1076-1237), conversation chunk: ensureSessionId
\* throws in a dead context and nothing else happens; otherwise the cache
\* grows by the accepted messages and the progress record is set.
ApiEvent ==
  /\ chromeAlive
  /\ captureIdActive' = IF captureIdActive = Null THEN "cap-now" ELSE captureIdActive
  /\ \E n \in apiLen..MaxLen, budgetReached \in BOOLEAN :
       /\ apiLen' = n
       /\ progressRec' = SetCaptureProgress(progressRec,
                           Patch(captureIdActive', "api_capture",
                                 IF budgetReached THEN "partial_budget_reached" ELSE "capturing"))
  /\ Writes({"API_MESSAGES", "CAPTURE_PROGRESS"})
  /\ UNCHANGED <<envVars, shutVars, deepCaptureInProgress, snapshotJobRunning, jobStrategy,
                 lastSnapshot, storedLen, jobVars, obsVars, otherVars>>

\* the extension is reloaded or updated: every chrome.* call throws from now
InvalidateContext ==
  /\ chromeAlive
  /\ chromeAlive' = FALSE
  /\ Writes({})
  /\ UNCHANGED <<provider, flagVars, storeVars, jobVars, obsVars, otherVars>>

Next ==
  \/ StartSnapshotJob
  \/ JobStarting
  \/ JobFetch
  \/ JobEmitFetch
  \/ JobEmbedded
  \/ JobPageContextWait
  \/ JobEmitHydrate
  \/ HydCount
  \/ HydWait
  \/ HydScan
  \/ HydEval
  \/ HydSleep
  \/ HydFinalScan
  \/ JobEmitScan
  \/ DcSleep
  \/ DcTopScan
  \/ DcBefore
  \/ DcScan
  \/ DcAfter
  \/ JobPick
  \/ JobEmitSnapshot
  \/ JobGenerate
  \/ JobSave
  \/ JobEmitDone
  \/ JobEmitError
  \/ HeartbeatTick
  \/ PageMutation
  \/ DebounceFire
  \/ MutationScan
  \/ ApiEvent
  \/ InvalidateContext


Spec == Init /\ [][Next]_vars

(***************************************************************************)
(* Properties of the orchestrator, checked under Spec.                     *)
(***************************************************************************)
\* C1: at most one runSnapshotJob is in progress, and a startSnapshotJob
\* request handled while an earlier job has not finished is answered
\* JOB_ALREADY_RUNNING and no job is ever run for it.
C1_SingleFlight ==
  /\ runningJobs <= 1
  /\ \A i \in 1..Len(responses) :
       responses[i].busy => /\ responses[i].resp = JobAlreadyRunning
                            /\ CapId(i) \notin startedFor

\* a request was refused while a job was running, and that job has gone on
\* to its end since
C1_Witness ==
  /\ Len(responses) = 2
  /\ responses[2].busy
  /\ responses[2].resp = JobAlreadyRunning
  /\ jobPc = "idle"
  /\ startedFor = {CapId(1)}

\* C7: when the hydration loop is left before the deadline, the no-growth
\* counter has reached the threshold of the provider and the view is at the
\* top edge.
C7_EarlyEndOnlyAtTopThreshold ==
  (jobPc = "hyd_sleep" /\ hyd.elapsed < HydrateMaxTicks)
    => (hyd.noGrowth >= maxNoGrowth /\ hyd.exitAtTop)

\* C8: however hydration ends, the view has been returned to its resting
\* position and exactly one final scan has been made.
C8_TerminationRestoresAndScansOnce ==
  hyd.outcome \in {"returned", "threw"} => (hyd.restored /\ hyd.finalScans = 1)

\* C9: a job never ends in error because an adapter failed: the error record
\* never carries the failure of a page scan.
AdapterFailures == {"scan_failed"}

C9_AdapterFailureNeverFatal ==
  ~(jobPc = "emit_error" /\ jobErr \in AdapterFailures)

\* C11: once softShutdown has run, the page observer is disconnected, the
\* debounce timer and the heartbeat are cleared, no wait observer or wait
\* timeout of hydration is armed, and none of them is armed later.
C11_NothingActiveAfterShutdown ==
  rl4ContextInvalidated =>
    /\ ~observer
    /\ ~debounceTimer
    /\ ~progressHeartbeatTimer
    /\ jobPc # "hyd_wait"

\* C14: the progress record in storage has no phase outside starting,
\* fetch, hydrate, scan, snapshot, done, error (Null: nothing written yet).
C14_PhaseInEnumeration ==
  progressRec.phase \in {Null, "starting", "fetch", "hydrate", "scan", "snapshot", "done", "error"}

\* C10: once softShutdown has run, no step calls chrome.storage.local.set.
C10_NoWriteAfterShutdown == lateWrites = {}

(***************************************************************************)
(* Message texts.  A text is a sequence of one-character strings; the      *)
(* string functions of the source are defined on that representation.      *)
(***************************************************************************)
SigHead == 2            \* the 220 characters of head and tail of a signature, scaled

Min(a, b) == IF a < b THEN a ELSE b
Max(a, b) == IF a > b THEN a ELSE b

\* the class \s of the regular expressions, on the alphabet of the model
IsSpace(c) == c \in {" ", "\n"}

\* String.prototype.toLowerCase, on one character
toLowerCase(c) == CASE c = "A" -> "a" [] c = "B" -> "b" [] OTHER -> c

\* content.replace(/\s+/g, ' ')
RECURSIVE CollapseSpaces(_)
CollapseSpaces(t) ==
  IF t = <<>> THEN <<>>
  ELSE IF IsSpace(Head(t))
       THEN IF Len(t) > 1 /\ IsSpace(t[2])
            THEN CollapseSpaces(Tail(t))
            ELSE <<" ">> \o CollapseSpaces(Tail(t))
       ELSE <<Head(t)>> \o CollapseSpaces(Tail(t))

RECURSIVE TrimStart(_)
TrimStart(t) == IF t # <<>> /\ IsSpace(Head(t)) THEN TrimStart(Tail(t)) ELSE t

RECURSIVE TrimEnd(_)
TrimEnd(t) == IF t # <<>> /\ IsSpace(t[Len(t)]) THEN TrimEnd(SubSeq(t, 1, Len(t) - 1)) ELSE t

\* String.prototype.trim
trim(t) == TrimEnd(TrimStart(t))

\* String.prototype.startsWith
startsWith(t, prefix) == Len(prefix) <= Len(t) /\ SubSeq(t, 1, Len(prefix)) = prefix

\* String.prototype.slice(0, n)
slice0(t, n) == SubSeq(t, 1, Min(n, Len(t)))

\* signature (part_003:2417-2423): role, length, head and tail of the text
\* with its whitespace collapsed, trimmed and in lower case
signature(role, content) ==
  LET collapsed == trim(CollapseSpaces(content))
      c == [i \in 1..Len(collapsed) |-> toLowerCase(collapsed[i])]
      len == Len(c)
      head == slice0(c, SigHead)
      tail == IF len > SigHead THEN SubSeq(c, Max(0, len - SigHead) + 1, len) ELSE <<>>
  IN <<IF role = Null THEN "unknown" ELSE role, len, head, tail>>

\* normalizeRole (part_003:864-872), role and sender being the same value
normalizeRole(role) ==
  CASE role \in {"user", "human"} -> "user"
    [] role \in {"assistant", "claude", "ai"} -> "assistant"
    [] OTHER -> Null

\* parts.map(text).filter(Boolean).join('\n')
RECURSIVE JoinParts(_)
JoinParts(parts) ==
  IF parts = <<>> THEN <<>>
  ELSE IF Head(parts) = <<>> THEN JoinParts(Tail(parts))
       ELSE LET rest == JoinParts(Tail(parts))
            IN IF rest = <<>> THEN Head(parts) ELSE Head(parts) \o <<"\n">> \o rest

\* normalizeContent (part_003:689-747) on a content object { parts: [...] }
normalizeContent(parts) == trim(JoinParts(parts))

\* extractFromArray (part_003:880-917): the items with a role and a text
\* whose signature was not seen yet, in order; the set of signatures grows
RECURSIVE extractFromArrayLoop(_, _, _)
extractFromArrayLoop(arr, seen, out) ==
  IF arr = <<>> THEN [out |-> out, seen |-> seen]
  ELSE LET item == Head(arr)
           role == normalizeRole(item.role)
           sig == signature(role, item.content)
       IN IF role # Null /\ item.content # <<>> /\ sig \notin seen
          THEN extractFromArrayLoop(Tail(arr), seen \cup {sig},
                                    Append(out, [item EXCEPT !.role = role]))
          ELSE extractFromArrayLoop(Tail(arr), seen, out)

extractFromArray(arr, seen) == extractFromArrayLoop(arr, seen, <<>>)

\* the final pass of extractMessagesFromAnyJson (part_003:1060-1068)
RECURSIVE Uniq(_, _)
Uniq(out, sigSeen) ==
  IF out = <<>> THEN <<>>
  ELSE LET sig == signature(Head(out).role, Head(out).content)
       IN IF sig \in sigSeen THEN Uniq(Tail(out), sigSeen)
          ELSE <<Head(out)>> \o Uniq(Tail(out), sigSeen \cup {sig})

(***************************************************************************)
(* SpecGraph: the extraction of messages from a ChatGPT conversation JSON  *)
(* { mapping: { id: { parent, message } }, current_node }.  Node ids are   *)
(* 1..MaxNodes in the order of their creation, which is also the order of  *)
(* the keys of the mapping; 0 stands for no node.  Every extracted message *)
(* keeps the id of the node it was read from.                              *)
(***************************************************************************)
MaxNodes == 3           \* nodes of a conversation graph
ChainCap == 100000      \* the cap on the length of the chain

Nodes == 1..MaxNodes

GraphMessage(present, role, parts, ctype, hidden) ==
  [present |-> present, role |-> role, parts |-> parts, content_type |-> ctype,
   hidden |-> hidden]

\* what a node of the mapping may carry
GraphMessages ==
  { GraphMessage(FALSE, "system", <<>>, "text", FALSE),
    GraphMessage(TRUE, "system", << <<"s">> >>, "text", FALSE),
    GraphMessage(TRUE, "user", << <<"a">> >>, "text", FALSE),
    GraphMessage(TRUE, "user", << <<"A", " ">> >>, "text", FALSE),
    GraphMessage(TRUE, "assistant", << <<"b">> >>, "text", FALSE),
    GraphMessage(TRUE, "user", << <<"c">> >>, "user_editable_context", FALSE),
    GraphMessage(TRUE, "assistant", << <<"d">> >>, "text", TRUE) }

\* the trees over the nodes: node 1 is the root, a later node hangs under an
\* earlier one
Mappings ==
  { m \in [Nodes -> [parent : 0..MaxNodes, message : GraphMessages]] :
      /\ m[1].parent = 0
      /\ \A i \in Nodes : i > 1 => m[i].parent \in 1..(i - 1) }

GraphInit ==
  gr \in [pc : {"parsed"}, mapping : Mappings, current_node : 0..MaxNodes,
          by : {Null}, out : {<<>>}]

\* msg.create_time of a node
create_time(id) == id

\* Object.keys(mapping)
ObjectKeys(mapping) == [i \in 1..MaxNodes |-> i]

RECURSIVE Reverse(_)
Reverse(s) == IF s = <<>> THEN <<>> ELSE Append(Reverse(Tail(s)), Head(s))

\* the walk from current_node along the parents (part_003:966-974,
\* part_004:123-131)
\* (a walk that does not look at its guard)
Walks_Unguarded(mapping, cur, guard, chainIds) ==
  cur # 0 /\ cur \in DOMAIN mapping /\ Len(chainIds) < ChainCap

\* while (cur && mapping[cur] && !guard.has(cur) && chainIds.length < 100_000)
Walks(mapping, cur, guard, chainIds) ==
  cur # 0 /\ cur \in DOMAIN mapping /\ cur \notin guard /\ Len(chainIds) < ChainCap

RECURSIVE ChainWalk(_, _, _, _)
ChainWalk(mapping, cur, guard, chainIds) ==
  IF Walks(mapping, cur, guard, chainIds)
  THEN ChainWalk(mapping, mapping[cur].parent, guard \cup {cur}, Append(chainIds, cur))
  ELSE chainIds

chainIds(mapping, currentNode) ==
  IF currentNode # 0 /\ currentNode \in DOMAIN mapping
  THEN Reverse(ChainWalk(mapping, currentNode, {}, <<>>))
  ELSE <<>>

idsToUse(mapping, currentNode) ==
  IF chainIds(mapping, currentNode) # <<>> THEN chainIds(mapping, currentNode)
  ELSE ObjectKeys(mapping)

\* the loop over idsToUse (part_003:978-1003; part_004:134-163 without the
\* truncation): the visible user and assistant messages with a text
RECURSIVE MappingPass(_, _)
MappingPass(mapping, ids) ==
  IF ids = <<>> THEN <<>>
  ELSE LET msg == mapping[Head(ids)].message
           role == normalizeRole(msg.role)
           content == normalizeContent(msg.parts)
       IN IF \/ ~msg.present
             \/ role \notin {"user", "assistant"}
             \/ msg.content_type = "user_editable_context"
             \/ msg.hidden
             \/ content = <<>>
          THEN MappingPass(mapping, Tail(ids))
          ELSE <<[role |-> role, content |-> content, node |-> Head(ids)]>>
               \o MappingPass(mapping, Tail(ids))

\* visit (part_003:1034-1058) over the mapping: every node is an object
\* with a message object, on which tryExtractChatGPTMessageObject
\* (938-955) calls pushOne (929-936)
RECURSIVE VisitMapping(_, _, _, _)
VisitMapping(mapping, ids, seen, out) ==
  IF ids = <<>> THEN out
  ELSE LET msg == mapping[Head(ids)].message
           role == normalizeRole(msg.role)
           content == normalizeContent(msg.parts)
           sig == signature(role, content)
       IN IF msg.present /\ role # Null /\ content # <<>> /\ sig \notin seen
          THEN VisitMapping(mapping, Tail(ids), seen \cup {sig},
                            Append(out, [role |-> role, content |-> content, node |-> Head(ids)]))
          ELSE VisitMapping(mapping, Tail(ids), seen, out)

\* extractMessagesFromAnyJson (part_003:925-1069) on a conversation JSON:
\* the mapping pass, then the recursive walk, then the final de-dup.  The
\* JSON has none of the common keys of the first pass (1020-1031).
extractMessagesFromAnyJson(root) ==
  LET extracted == MappingPass(root.mapping, idsToUse(root.mapping, root.current_node))
      asArray == extractFromArray(extracted, {})
      walked == VisitMapping(root.mapping, ObjectKeys(root.mapping), asArray.seen, asArray.out)
  IN Uniq(walked, {})

\* text.slice(0, MAX) + '\n[RL4_TRUNCATED_MESSAGE]' when the text is longer
truncate(content, max) ==
  IF Len(content) > max THEN slice0(content, max) \o <<"\n", "#">> ELSE content

\* extractChatGPTConversationMessages of the page-context interceptor
\* (part_004:112-165)
MAX_CHATGPT_MSG_CHARS == 2 \* 30_000 in the source, scaled

extractChatGPTConversationMessages(json) ==
  LET picked == MappingPass(json.mapping, idsToUse(json.mapping, json.current_node))
  IN [i \in 1..Len(picked) |->
        [picked[i] EXCEPT !.content = truncate(picked[i].content, MAX_CHATGPT_MSG_CHARS)]]

\* extracted.sort by timestamp (content.js:418): a stable insertion sort
RECURSIVE SortInsert(_, _)
SortInsert(sorted, m) ==
  IF sorted = <<>> THEN <<m>>
  ELSE IF create_time(m.node) < create_time(Head(sorted).node)
       THEN <<m>> \o sorted
       ELSE <<Head(sorted)>> \o SortInsert(Tail(sorted), m)

RECURSIVE SortByTimestamp(_)
SortByTimestamp(s) ==
  IF s = <<>> THEN <<>>
  ELSE SortInsert(SortByTimestamp(SubSeq(s, 1, Len(s) - 1)), s[Len(s)])

\* the loop over Object.values(root.mapping) of the earlier content script
\* (content.js:399-416)
RECURSIVE LegacyMappingPass(_, _)
LegacyMappingPass(mapping, ids) ==
  IF ids = <<>> THEN <<>>
  ELSE LET msg == mapping[Head(ids)].message
           role == normalizeRole(msg.role)
           content == normalizeContent(msg.parts)
       IN IF ~msg.present \/ role = Null \/ content = <<>>
          THEN LegacyMappingPass(mapping, Tail(ids))
          ELSE <<[role |-> role, content |-> content, node |-> Head(ids)]>>
               \o LegacyMappingPass(mapping, Tail(ids))

\* extractMessagesFromAnyJson of the earlier content script (content.js:
\* 397-427 and the passes after it)
extractMessagesFromAnyJsonLegacy(root) ==
  LET extracted == SortByTimestamp(LegacyMappingPass(root.mapping, ObjectKeys(root.mapping)))
      asArray == extractFromArray(extracted, {})
      walked == VisitMapping(root.mapping, ObjectKeys(root.mapping), asArray.seen, asArray.out)
  IN Uniq(walked, {})

orchestratorVars == <<envVars, flagVars, storeVars, jobVars, obsVars, lateWrites>>

\* onApiEvent parses a response body and extracts its messages
\* (part_003:1200)
GraphExtractAnyJson ==
  /\ gr.pc = "parsed"
  /\ gr' = [gr EXCEPT !.pc = "extracted", !.by = "content_script",
                      !.out = extractMessagesFromAnyJson(gr)]
  /\ UNCHANGED <<orchestratorVars, reconVars, clock, pick, gen, seal, lsn, poll, dd, ins, ens>>

\* the interceptor extracts the messages of a conversation response
GraphExtractPageContext ==
  /\ gr.pc = "parsed"
  /\ gr' = [gr EXCEPT !.pc = "extracted", !.by = "page_context",
                      !.out = extractChatGPTConversationMessages(gr)]
  /\ UNCHANGED <<orchestratorVars, reconVars, clock, pick, gen, seal, lsn, poll, dd, ins, ens>>

\* the earlier content script extracts the messages of a response body
GraphExtractLegacy ==
  /\ gr.pc = "parsed"
  /\ gr' = [gr EXCEPT !.pc = "extracted", !.by = "legacy_content_script",
                      !.out = extractMessagesFromAnyJsonLegacy(gr)]
  /\ UNCHANGED <<orchestratorVars, reconVars, clock, pick, gen, seal, lsn, poll, dd, ins, ens>>

\* the orchestrator at rest on a ChatGPT tab
JobOff == JobInit /\ provider = "chatgpt" /\ storedLen = 0

InitGraph == JobOff /\ ReconcileOff /\ GraphInit /\ clock = ClockInit /\ pick = PickInit /\ gen = GenInit /\ seal = SealInit /\ lsn = ListenerInit /\ poll = PollInit /\ dd = DedupInit /\ ins = InsightsInit /\ ens = EnsureInit

NextGraph ==
  \/ GraphExtractAnyJson
  \/ GraphExtractPageContext
  \/ GraphExtractLegacy

SpecGraph == InitGraph /\ [][NextGraph]_vars

(***************************************************************************)
(* Properties of the extraction, checked under SpecGraph.                  *)
(***************************************************************************)
\* the nodes of the path root -> current_node that carry a visible user or
\* assistant message, from the root to the leaf
PathNodes ==
  LET path == MappingPass(gr.mapping, chainIds(gr.mapping, gr.current_node))
  IN [i \in 1..Len(path) |-> path[i].node]

OutNodes == [i \in 1..Len(gr.out) |-> gr.out[i].node]

\* C4: for a graph with a current node, whichever extractor is applied, the
\* extracted messages are those of the path root -> current_node, in that
\* order, and none comes from a node off the path.
C4_PathOnly ==
  (gr.pc = "extracted" /\ gr.current_node # 0) => OutNodes = PathNodes

(***************************************************************************)
(* SpecReconcile: the reconciler and the session.  scanAndSyncMessages,    *)
(* onApiEvent, tryFetchChatGPTConversation and the route watcher run as    *)
(* asynchronous handlers over real message lists.  chrome.storage serves   *)
(* its calls in the order they were issued: a get returns the store as it  *)
(* was when the get was issued, a set takes effect when it is issued, and  *)
(* the handlers awaiting a storage promise resume oldest first (storageQ). *)
(* A session id conv-<convId>-<timestamp> is represented by its convId.    *)
(***************************************************************************)
MaxPage == 2                   \* message nodes on a page at one scan
MaxPayload == 2                \* messages in one network payload
MaxInFlight == 2               \* handlers in progress at one time
MAX_API_CACHE_MESSAGES == 3    \* 50_000 in the source, scaled
MAX_API_CACHE_TOTAL_CHARS == 4 \* 12_000_000 in the source, scaled
MAX_SINGLE_MESSAGE_CHARS == 2  \* 30_000 in the source, scaled

Convs == {"A", "B"}
FirstConv == "A"               \* the conversation the tab is loaded on

Message(role, content) == [role |-> role, content |-> content]

\* what parseMessageElement can return for a node of the page; the role is
\* Null when detectRole finds none
PageMessages ==
  { Message("assistant", <<"a">>), Message("assistant", <<"A">>),
    Message("assistant", <<"a", "b">>), Message(Null, <<"a">>) }

SeqsUpTo(S, n) == UNION {[1..k -> S] : k \in 0..n}

Pages == SeqsUpTo(PageMessages, MaxPage)

\* the input that varies in a behaviour: the page that the scans read, the
\* chunks or the bodies that the interceptor posts, or the answers to the
\* fetch of a job
Scenarios == {"page", "chunk", "body", "fetch"}

\* the page of a behaviour in which the network is what varies: its
\* message nodes are not rendered yet
QuietPages == {<<>>}

PagesNow == IF scenario = "page" THEN Pages ELSE QuietPages

\* the handlers in progress
InFlight(ps) == Cardinality({p \in Procs : ps[p].pc # "idle"})

\* the messages a network response can carry
NetMessages ==
  { Message("assistant", <<"a">>), Message("assistant", <<"a", "b">>),
    Message("user", <<"a", "b", "c">>) }

Payloads == SeqsUpTo(NetMessages, MaxPayload) \ {<<>>}

\* the role inference of scanAndSyncMessages (part_003:2488-2503); i counts
\* from 0 as in the source
RECURSIVE InferRoles(_, _, _)
InferRoles(parsed, i, lastKnown) ==
  IF i >= Len(parsed) THEN parsed
  ELSE LET p == parsed[i + 1]
           role == IF p.role # Null THEN p.role
                   ELSE IF lastKnown # Null
                        THEN (IF lastKnown = "user" THEN "assistant" ELSE "user")
                        ELSE (IF i % 2 = 0 THEN "user" ELSE "assistant")
       IN InferRoles([parsed EXCEPT ![i + 1].role = role], i + 1, role)

\* the id msg-n of the source is the number n
Stored(p, sessionId, id) ==
  [id |-> id, role |-> p.role, content |-> p.content, session_id |-> sessionId]

\* replace mode (part_003:2514-2542): the page, index by index
ReplaceNext(existing, parsed, sessionId) ==
  [i \in 1..Len(parsed) |->
     IF i <= Len(existing) /\ existing[i].role = parsed[i].role
     THEN IF existing[i].content # parsed[i].content
          THEN [existing[i] EXCEPT !.content = parsed[i].content]
          ELSE existing[i]
     ELSE Stored(parsed[i], sessionId, i)]

\* tryUpdateLastStreaming (part_003:2431-2446): does it update, and to what
UpdatesLast(existing, incoming) ==
  /\ existing # <<>>
  /\ incoming.role # Null
  /\ existing[Len(existing)].role = incoming.role
  /\ LET prev == trim(existing[Len(existing)].content)
         next == trim(incoming.content)
     IN /\ prev # <<>>
        /\ next # <<>>
        /\ (startsWith(next, prev) \/ startsWith(prev, next))

tryUpdateLastStreaming(existing, incoming) ==
  [existing EXCEPT ![Len(existing)].content = trim(incoming.content)]

\* the candidate is a strict extension of the last entry, of the same role
ExtendsLast(list, p) ==
  /\ list # <<>>
  /\ list[Len(list)].role = p.role
  /\ Len(p.content) > Len(list[Len(list)].content)
  /\ startsWith(p.content, list[Len(list)].content)

\* append mode (part_003:2554-2573).  ext tells whether a candidate that
\* strictly extends the last entry was appended as a new entry.
RECURSIVE AppendLoop(_, _, _, _, _)
AppendLoop(parsed, next, seen, sessionId, ext) ==
  IF parsed = <<>> THEN [next |-> next, ext |-> ext]
  ELSE LET p == Head(parsed)
           sig == signature(p.role, p.content)
       IN IF UpdatesLast(next, p)
          THEN AppendLoop(Tail(parsed), tryUpdateLastStreaming(next, p), seen, sessionId, ext)
          ELSE IF sig \in seen
               THEN AppendLoop(Tail(parsed), next, seen, sessionId, ext)
               ELSE AppendLoop(Tail(parsed), Append(next, Stored(p, sessionId, Len(next) + 1)),
                               seen \cup {sig}, sessionId, ext \/ ExtendsLast(next, p))

Signatures(list) == {signature(list[i].role, list[i].content) : i \in 1..Len(list)}

AppendNext(existing, parsed, sessionId) ==
  AppendLoop(parsed, existing, Signatures(existing), sessionId, FALSE)

\* apiMessagesCache.reduce((acc, m) => acc + m.content.length, 0)
RECURSIVE TotalChars(_)
TotalChars(list) == IF list = <<>> THEN 0 ELSE Len(Head(list).content) + TotalChars(Tail(list))

Cached(role, content, sessionId, url, id) ==
  [id |-> id, role |-> role, content |-> content, session_id |-> sessionId, source_url |-> url]

\* the budget loop of the chunk path of onApiEvent (part_003:1093-1121)
RECURSIVE ChunkLoop(_, _, _, _, _, _, _, _)
ChunkLoop(messages, cache, existingSig, totalChars, sessionId, url, accepted, ext) ==
  IF messages = <<>>
  THEN [cache |-> cache, budgetReached |-> FALSE, accepted |-> accepted, ext |-> ext]
  ELSE LET raw == Head(messages)
           role == normalizeRole(raw.role)
           content == truncate(raw.content, MAX_SINGLE_MESSAGE_CHARS)
           sig == signature(role, content)
       IN IF role = Null \/ raw.content = <<>> \/ sig \in existingSig
          THEN ChunkLoop(Tail(messages), cache, existingSig, totalChars, sessionId, url,
                         accepted, ext)
          ELSE IF \/ totalChars + Len(content) > MAX_API_CACHE_TOTAL_CHARS
                  \/ Len(cache) >= MAX_API_CACHE_MESSAGES
               THEN [cache |-> cache, budgetReached |-> TRUE, accepted |-> accepted, ext |-> ext]
               ELSE ChunkLoop(Tail(messages), Append(cache, Cached(role, content, sessionId, url,
                                                                  Len(cache) + 1)),
                              existingSig \cup {sig}, totalChars + Len(content), sessionId, url,
                              accepted + 1,
                              ext \/ ExtendsLast(cache, [role |-> role, content |-> content]))

ChunkMerge(cache, messages, sessionId, url) ==
  ChunkLoop(messages, cache, Signatures(cache), TotalChars(cache), sessionId, url, 0, FALSE)

\* the merge of the generic path of onApiEvent (part_003:1203-1220)
RECURSIVE GenericLoop(_, _, _, _, _, _, _)
GenericLoop(extracted, cache, existingSig, sessionId, url, accepted, ext) ==
  IF extracted = <<>> THEN [cache |-> cache, accepted |-> accepted, ext |-> ext]
  ELSE LET m == Head(extracted)
           sig == signature(m.role, m.content)
       IN IF sig \in existingSig
          THEN GenericLoop(Tail(extracted), cache, existingSig, sessionId, url, accepted, ext)
          ELSE GenericLoop(Tail(extracted),
                           Append(cache, Cached(m.role, m.content, sessionId, url, Len(cache) + 1)),
                           existingSig \cup {sig}, sessionId, url, accepted + 1,
                           ext \/ ExtendsLast(cache, m))

\* apiMessagesCache.slice(-MAX_API_CACHE_MESSAGES) when it is longer
CapCache(cache) ==
  IF Len(cache) > MAX_API_CACHE_MESSAGES
  THEN SubSeq(cache, Len(cache) - MAX_API_CACHE_MESSAGES + 1, Len(cache))
  ELSE cache

GenericMerge(cache, extracted, sessionId, url) ==
  LET merged == GenericLoop(extracted, cache, Signatures(cache), sessionId, url, 0, FALSE)
  IN [merged EXCEPT !.cache = CapCache(merged.cache)]

\* extractMessagesFromAnyJson (part_003:925-1069) on a body { messages: [...] }:
\* the pass over the common keys extracts the array, the recursive walk
\* finds nothing new in it
ExtractBody(messages) == Uniq(extractFromArray(messages, {}).out, {})

\* out.map(...) of tryFetchChatGPTConversation (part_003:1312-1328)
FetchedCache(mapped, sessionId, url) ==
  [i \in 1..Len(mapped) |->
     Cached(normalizeRole(mapped[i].role), mapped[i].content, sessionId, url, i)]

\* computeSessionId (part_003:1903-1907): it reads the URL when it is called
computeSessionId == convUrl

(***************************************************************************)
(* The handlers.  procs[p] holds the locals of handler p: its position pc, *)
(* what called ensureSessionId (ret), the list it carries (arg), the URL   *)
(* of its payload, and the locals of ensureSessionId.                      *)
(***************************************************************************)
Frame(pc, ret, arg, url, append) ==
  [pc |-> pc, ret |-> ret, arg |-> arg, url |-> url, append |-> append,
   convId |-> Null, cur |-> Null, curConv |-> Null, sid |-> Null, ext |-> FALSE,
   patch |-> Patch(Null, Null, Null)]

\* ensureSessionId up to its first await (part_003:1913-1914): the URL is
\* read and the get is issued
EnsureCall(f, conv) ==
  [f EXCEPT !.pc = "ens_get", !.convId = conv,
            !.cur = CURRENT_SESSION_ID, !.curConv = CURRENT_CONV_ID]

Resumes(p) == storageQ # <<>> /\ Head(storageQ) = p

sessVars == <<CURRENT_CONV_ID, CURRENT_SESSION_ID, CURRENT_MESSAGES>>
ghostVars == <<extAppended, budgetHit, acceptedAfterHit, markedPartial>>
reconFrame == <<envVars, observer, debounceTimer, progressHeartbeatTimer, deepCaptureInProgress,
                snapshotJobRunning, jobStrategy, rl4ContextInvalidated, lastSnapshot,
                storedLen, apiLen, jobVars, obsVars, lateWrites, gr, scenario, clock, pick, gen, seal, lsn, poll, dd, ins, ens>>

\* setCaptureProgress(patch) is called (part_003:239-254): its get is issued
\* now, its set follows when the get resolves.  The sets of any two calls
\* reach the store in the order of the calls, and the keys of the patch
\* take the values of the patch whatever the get returns, so the record is
\* given its next value at the call.
ProgressCall(patch) ==
  /\ progressRec' = SetCaptureProgress(progressRec, patch)
  /\ markedPartial' = (markedPartial \/ patch.status = "partial_budget_reached")

\* emitCaptureProgress(...) that is not awaited: the throttle lets it
\* through or drops it (part_003:256-261)
Emit(patch) ==
  \E emit \in BOOLEAN :
    IF emit THEN ProgressCall(patch) ELSE UNCHANGED <<progressRec, markedPartial>>

\* scanAndSyncMessages after ensureSessionId (part_003:2465-2512): the page
\* is parsed, the roles inferred, the get of CURRENT_MESSAGES issued.  The
\* list to save is a function of the page and of what the get returns.
AfterEnsureScan(p, L, sessionId, q) ==
  /\ \E page \in PagesNow :
       LET parsed == InferRoles(page, 0, Null)
           r == IF L.append
                THEN AppendNext(CURRENT_MESSAGES, parsed, sessionId)
                ELSE [next |-> ReplaceNext(CURRENT_MESSAGES, parsed, sessionId), ext |-> FALSE]
       IN IF parsed = <<>>
          THEN /\ procs' = [procs EXCEPT ![p] = ProcIdle]
               /\ storageQ' = q
               /\ Emit(Patch(captureIdActive, "scan", "no_messages"))
          ELSE /\ procs' = [procs EXCEPT
                              ![p] = [Frame("msgs_get", "scan", r.next, Null, L.append)
                                        EXCEPT !.ext = r.ext]]
               /\ storageQ' = Append(q, p)
               /\ UNCHANGED <<progressRec, markedPartial>>
  /\ UNCHANGED <<apiMessagesCache, captureIdActive, extAppended, budgetHit, acceptedAfterHit>>

\* the route handler after its ensureSessionId (part_003:645): it calls
\* scanAndSyncMessages('route-change'), which calls ensureSessionId
AfterEnsureRoute(p, L, sessionId, q) ==
  /\ procs' = [procs EXCEPT
                 ![p] = EnsureCall(Frame("ens_get", "scan", <<>>, Null, FALSE), convUrl)]
  /\ storageQ' = Append(q, p)
  /\ UNCHANGED <<apiMessagesCache, captureIdActive, ghostVars, progressRec>>

\* onApiEvent, conversation chunk, after ensureSessionId (part_003:1083-1140)
AfterEnsureChunk(p, L, sessionId, q) ==
  LET r == ChunkMerge(apiMessagesCache, L.arg, sessionId, L.url)
      cap == IF captureIdActive = Null THEN "cap-now" ELSE captureIdActive
  IN /\ captureIdActive' = cap
     /\ apiMessagesCache' = r.cache
     /\ budgetHit' = (budgetHit \/ r.budgetReached)
     /\ acceptedAfterHit' = (acceptedAfterHit \/ (budgetHit /\ r.accepted > 0))
     /\ extAppended' = IF r.ext THEN extAppended \cup {"onApiEvent"} ELSE extAppended
     /\ procs' = [procs EXCEPT
                    ![p] = [Frame("api_set", "api_chunk", <<>>, Null, FALSE)
                              EXCEPT !.patch = Patch(cap, "api_capture",
                                                     IF r.budgetReached
                                                     THEN "partial_budget_reached"
                                                     ELSE "capturing")]]
     /\ storageQ' = Append(q, p)
     /\ UNCHANGED <<markedPartial, progressRec>>

\* onApiEvent, response body, after ensureSessionId (part_003:1203-1232)
AfterEnsureBody(p, L, sessionId, q) ==
  LET r == GenericMerge(apiMessagesCache, L.arg, sessionId, L.url)
  IN /\ apiMessagesCache' = r.cache
     /\ acceptedAfterHit' = (acceptedAfterHit \/ (budgetHit /\ r.accepted > 0))
     /\ extAppended' = IF r.ext THEN extAppended \cup {"onApiEvent"} ELSE extAppended
     /\ procs' = [procs EXCEPT ![p] = Frame("api_set", "api_body", <<>>, Null, FALSE)]
     /\ storageQ' = Append(q, p)
     /\ UNCHANGED <<captureIdActive, budgetHit, markedPartial, progressRec>>

\* tryFetchChatGPTConversation after ensureSessionId (part_003:1312-1345):
\* the cache becomes the fetched conversation, the fetch record is emitted
AfterEnsureFetch(p, L, sessionId, q) ==
  /\ apiMessagesCache' = FetchedCache(L.arg, sessionId, L.url)
  /\ acceptedAfterHit' = (acceptedAfterHit \/ budgetHit)
  /\ ProgressCall(Patch(captureIdActive, "fetch", "capturing"))
  /\ procs' = [procs EXCEPT ![p] = Frame("prog_get", "fetch", <<>>, Null, FALSE)]
  /\ storageQ' = Append(q, p)
  /\ UNCHANGED <<captureIdActive, extAppended, budgetHit>>

\* ensureSessionId returns sessionId to the handler that called it
AfterEnsure(p, L, sessionId, q) ==
  CASE L.ret = "scan" -> AfterEnsureScan(p, L, sessionId, q)
    [] L.ret = "route" -> AfterEnsureRoute(p, L, sessionId, q)
    [] L.ret = "api_chunk" -> AfterEnsureChunk(p, L, sessionId, q)
    [] L.ret = "api_body" -> AfterEnsureBody(p, L, sessionId, q)
    [] L.ret = "fetch" -> AfterEnsureFetch(p, L, sessionId, q)

\* ensureSessionId from `const sessionId = computeSessionId()` on
\* (part_003:1968-1980).  A stored id never has the form conv-unknown-...:
\* getConversationIdFromUrl never returns 'unknown'.
EnsTail(p, L, q) ==
  IF L.cur # Null
  THEN /\ AfterEnsure(p, L, L.cur, q)
       /\ UNCHANGED CURRENT_SESSION_ID
  ELSE /\ CURRENT_SESSION_ID' = computeSessionId
       /\ procs' = [procs EXCEPT ![p] = [L EXCEPT !.pc = "ens_set", !.sid = computeSessionId]]
       /\ storageQ' = Append(q, p)
       /\ UNCHANGED <<apiMessagesCache, captureIdActive, ghostVars, progressRec>>

\* the get of ensureSessionId resolves (part_003:1914-1966)
EnsGet(p) ==
  /\ procs[p].pc = "ens_get"
  /\ Resumes(p)
  /\ LET L == procs[p]
         q == Tail(storageQ)
         reset == \/ L.cur # Null /\ L.curConv = Null /\ L.cur # L.convId
                  \/ L.curConv # Null /\ L.curConv # L.convId
     IN IF reset
        THEN /\ apiMessagesCache' = <<>>
             /\ CURRENT_CONV_ID' = L.convId
             /\ CURRENT_SESSION_ID' = computeSessionId
             /\ CURRENT_MESSAGES' = <<>>
             /\ procs' = [procs EXCEPT ![p] = [L EXCEPT !.pc = "ens_set",
                                                        !.sid = computeSessionId]]
             /\ storageQ' = Append(q, p)
             /\ budgetHit' = FALSE
             /\ acceptedAfterHit' = FALSE
             /\ markedPartial' = FALSE
             /\ UNCHANGED <<extAppended, captureIdActive, progressRec>>
        ELSE IF L.curConv = Null
             THEN /\ CURRENT_CONV_ID' = L.convId
                  /\ procs' = [procs EXCEPT ![p] = [L EXCEPT !.pc = "ens_conv_set"]]
                  /\ storageQ' = Append(q, p)
                  /\ UNCHANGED <<CURRENT_SESSION_ID, CURRENT_MESSAGES, apiMessagesCache,
                                 captureIdActive, ghostVars, progressRec>>
             ELSE /\ EnsTail(p, L, q)
                  /\ UNCHANGED <<CURRENT_CONV_ID, CURRENT_MESSAGES>>
  /\ UNCHANGED <<convUrl, netInflight, reconFrame>>

\* the set of CURRENT_CONV_ID on a first run resolves (part_003:1964-1966)
EnsConvSet(p) ==
  /\ procs[p].pc = "ens_conv_set"
  /\ Resumes(p)
  /\ EnsTail(p, procs[p], Tail(storageQ))
  /\ UNCHANGED <<convUrl, CURRENT_CONV_ID, CURRENT_MESSAGES, netInflight, reconFrame>>

\* the set of the session resolves; updateSessionsIndex (part_003:1988-1997)
\* issues its get
EnsSet(p) ==
  /\ procs[p].pc = "ens_set"
  /\ Resumes(p)
  /\ procs' = [procs EXCEPT ![p].pc = "ens_idx_get"]
  /\ storageQ' = Append(Tail(storageQ), p)
  /\ UNCHANGED <<convUrl, sessVars, apiMessagesCache, netInflight, ghostVars, captureIdActive,
                 progressRec, reconFrame>>

\* the get of updateSessionsIndex resolves; it issues its set
EnsIdxGet(p) ==
  /\ procs[p].pc = "ens_idx_get"
  /\ Resumes(p)
  /\ procs' = [procs EXCEPT ![p].pc = "ens_idx_set"]
  /\ storageQ' = Append(Tail(storageQ), p)
  /\ UNCHANGED <<convUrl, sessVars, apiMessagesCache, netInflight, ghostVars, captureIdActive,
                 progressRec, reconFrame>>

\* the set of updateSessionsIndex resolves; ensureSessionId returns
EnsIdxSet(p) ==
  /\ procs[p].pc = "ens_idx_set"
  /\ Resumes(p)
  /\ AfterEnsure(p, procs[p], procs[p].sid, Tail(storageQ))
  /\ UNCHANGED <<convUrl, sessVars, netInflight, reconFrame>>

\* a scan is called: by the observer's timer (replace mode) or by hydration
\* and deep capture (append mode)
ScanStart ==
  /\ procs["scan"].pc = "idle"
  /\ InFlight(procs) < MaxInFlight
  /\ isExtensionContextAlive
  /\ \E append \in BOOLEAN :
       procs' = [procs EXCEPT
                   !["scan"] = EnsureCall(Frame("ens_get", "scan", <<>>, Null, append), convUrl)]
  /\ storageQ' = Append(storageQ, "scan")
  /\ UNCHANGED <<convUrl, sessVars, apiMessagesCache, netInflight, ghostVars, captureIdActive,
                 progressRec, reconFrame>>

\* the get of CURRENT_MESSAGES resolves; saveToStorage(next)
\* (part_003:2543, 2575)
MsgsGet(p) ==
  /\ procs[p].pc = "msgs_get"
  /\ Resumes(p)
  /\ CURRENT_MESSAGES' = procs[p].arg
  /\ extAppended' = IF procs[p].ext THEN extAppended \cup {"scanAndSyncMessages"}
                                    ELSE extAppended
  /\ procs' = [procs EXCEPT ![p] = Frame("msgs_set", "scan", <<>>, Null, procs[p].append)]
  /\ storageQ' = Append(Tail(storageQ), p)
  /\ UNCHANGED <<convUrl, CURRENT_CONV_ID, CURRENT_SESSION_ID, apiMessagesCache, netInflight,
                 budgetHit, acceptedAfterHit, markedPartial, captureIdActive, progressRec,
                 reconFrame>>

\* the set of saveToStorage resolves; the progress is emitted and the scan
\* returns (part_003:2544-2552, 2576-2583)
MsgsSet(p) ==
  /\ procs[p].pc = "msgs_set"
  /\ Resumes(p)
  /\ procs' = [procs EXCEPT ![p] = ProcIdle]
  /\ storageQ' = Tail(storageQ)
  /\ Emit(Patch(captureIdActive, IF procs[p].append THEN "scan_append" ELSE "scan",
                "capturing"))
  /\ UNCHANGED <<convUrl, sessVars, apiMessagesCache, netInflight, extAppended, budgetHit,
                 acceptedAfterHit, captureIdActive, reconFrame>>

\* the page leaves the conversation it was loaded on for another one:
\* onRouteMaybeChanged (part_003:636-645) calls ensureSessionId
RouteChange ==
  /\ procs["route"].pc = "idle"
  /\ InFlight(procs) < MaxInFlight
  /\ isExtensionContextAlive
  /\ convUrl = FirstConv
  /\ \E c \in Convs \ {convUrl} :
       /\ convUrl' = c
       /\ procs' = [procs EXCEPT
                      !["route"] = EnsureCall(Frame("ens_get", "route", <<>>, Null, FALSE), c)]
  /\ storageQ' = Append(storageQ, "route")
  /\ UNCHANGED <<sessVars, apiMessagesCache, netInflight, ghostVars, captureIdActive,
                 progressRec, reconFrame>>

\* the page requests the conversation of its URL from the backend
NetRequest ==
  /\ scenario \in {"chunk", "body"}
  /\ convUrl \notin netInflight
  /\ netInflight' = netInflight \cup {convUrl}
  /\ UNCHANGED <<convUrl, sessVars, apiMessagesCache, procs, storageQ, ghostVars,
                 captureIdActive, progressRec, reconFrame>>

\* the interceptor posts a chunk of a conversation response: onApiEvent
\* (part_003:1081-1083)
ApiChunk ==
  /\ scenario = "chunk"
  /\ procs["api"].pc = "idle"
  /\ InFlight(procs) < MaxInFlight
  /\ \E c \in netInflight, messages \in Payloads :
       procs' = [procs EXCEPT
                   !["api"] = EnsureCall(Frame("ens_get", "api_chunk", messages, c, FALSE),
                                         convUrl)]
  /\ storageQ' = Append(storageQ, "api")
  /\ UNCHANGED <<convUrl, sessVars, apiMessagesCache, netInflight, ghostVars, captureIdActive,
                 progressRec, reconFrame>>

\* the interceptor posts a response body: onApiEvent (part_003:1160-1203)
ApiBody ==
  /\ scenario = "body"
  /\ procs["api"].pc = "idle"
  /\ InFlight(procs) < MaxInFlight
  /\ \E c \in netInflight, messages \in Payloads :
       /\ ExtractBody(messages) # <<>>
       /\ procs' = [procs EXCEPT
                      !["api"] = EnsureCall(Frame("ens_get", "api_body", ExtractBody(messages),
                                                  c, FALSE), convUrl)]
  /\ storageQ' = Append(storageQ, "api")
  /\ UNCHANGED <<convUrl, sessVars, apiMessagesCache, netInflight, ghostVars, captureIdActive,
                 progressRec, reconFrame>>

\* the set of API_MESSAGES resolves (part_003:1141-1157, 1229-1233): the
\* chunk path goes on to setCaptureProgress, the body path returns
ApiSet(p) ==
  /\ procs[p].pc = "api_set"
  /\ Resumes(p)
  /\ IF procs[p].ret = "api_chunk"
     THEN /\ ProgressCall(procs[p].patch)
          /\ procs' = [procs EXCEPT ![p] = Frame("prog_get", "api_chunk", <<>>, Null, FALSE)]
          /\ storageQ' = Append(Tail(storageQ), p)
     ELSE /\ procs' = [procs EXCEPT ![p] = ProcIdle]
          /\ storageQ' = Tail(storageQ)
          /\ UNCHANGED <<progressRec, markedPartial>>
  /\ UNCHANGED <<convUrl, sessVars, apiMessagesCache, netInflight, extAppended, budgetHit,
                 acceptedAfterHit, captureIdActive, reconFrame>>

\* the get of an awaited setCaptureProgress resolves; its set is issued
\* (part_003:241-250)
ProgGet(p) ==
  /\ procs[p].pc = "prog_get"
  /\ Resumes(p)
  /\ procs' = [procs EXCEPT ![p].pc = "prog_set"]
  /\ storageQ' = Append(Tail(storageQ), p)
  /\ UNCHANGED <<convUrl, sessVars, apiMessagesCache, netInflight, ghostVars, captureIdActive,
                 progressRec, reconFrame>>

\* the set of setCaptureProgress resolves; the handler returns
ProgSet(p) ==
  /\ procs[p].pc = "prog_set"
  /\ Resumes(p)
  /\ procs' = [procs EXCEPT ![p] = ProcIdle]
  /\ storageQ' = Tail(storageQ)
  /\ UNCHANGED <<convUrl, sessVars, apiMessagesCache, netInflight, ghostVars, captureIdActive,
                 progressRec, reconFrame>>

\* a job calls tryFetchChatGPTConversation(convId) (part_003:391-393,
\* 1305-1308): the conversation of the URL is requested
FetchStart ==
  /\ procs["fetch"].pc = "idle"
  /\ InFlight(procs) < MaxInFlight
  /\ provider = "chatgpt"
  /\ scenario = "fetch"
  /\ procs' = [procs EXCEPT !["fetch"] = Frame("net", "fetch", <<>>, convUrl, FALSE)]
  /\ UNCHANGED <<convUrl, sessVars, apiMessagesCache, storageQ, netInflight, ghostVars,
                 captureIdActive, progressRec, reconFrame>>

\* the response arrives (part_003:1309-1312): with messages, ensureSessionId
\* is called; without, the fetch gives up
FetchResolve ==
  /\ procs["fetch"].pc = "net"
  /\ \E mapped \in Payloads \cup {<<>>} :
       IF mapped = <<>>
       THEN /\ procs' = [procs EXCEPT !["fetch"] = ProcIdle]
            /\ UNCHANGED storageQ
       ELSE /\ procs' = [procs EXCEPT
                           !["fetch"] = EnsureCall(Frame("ens_get", "fetch", mapped,
                                                         procs["fetch"].url, FALSE), convUrl)]
            /\ storageQ' = Append(storageQ, "fetch")
  /\ UNCHANGED <<convUrl, sessVars, apiMessagesCache, netInflight, ghostVars, captureIdActive,
                 progressRec, reconFrame>>

\* the tab at load: the store is empty or was left by an earlier page of
\* the same conversation
ReconcileInit ==
  /\ convUrl = FirstConv
  /\ CURRENT_CONV_ID \in {Null, FirstConv}
  /\ CURRENT_SESSION_ID = CURRENT_CONV_ID
  /\ CURRENT_MESSAGES = <<>>
  /\ apiMessagesCache = <<>>
  /\ procs = [p \in Procs |-> ProcIdle]
  /\ storageQ = <<>>
  /\ netInflight = {}
  /\ scenario \in Scenarios
  /\ extAppended = {}
  /\ budgetHit = FALSE
  /\ acceptedAfterHit = FALSE
  /\ markedPartial = FALSE

InitReconcile == JobOff /\ ReconcileInit /\ gr = GrIdle /\ clock = ClockInit /\ pick = PickInit /\ gen = GenInit /\ seal = SealInit /\ lsn = ListenerInit /\ poll = PollInit /\ dd = DedupInit /\ ins = InsightsInit /\ ens = EnsureInit

NextReconcile ==
  \/ ScanStart
  \/ RouteChange
  \/ NetRequest
  \/ ApiChunk
  \/ ApiBody
  \/ FetchStart
  \/ FetchResolve
  \/ \E p \in Procs : EnsGet(p)
  \/ \E p \in Procs : EnsConvSet(p)
  \/ \E p \in Procs : EnsSet(p)
  \/ \E p \in Procs : EnsIdxGet(p)
  \/ \E p \in Procs : EnsIdxSet(p)
  \/ \E p \in Procs : MsgsGet(p)
  \/ \E p \in Procs : MsgsSet(p)
  \/ \E p \in Procs : ApiSet(p)
  \/ \E p \in Procs : ProgGet(p)
  \/ \E p \in Procs : ProgSet(p)

SpecReconcile == InitReconcile /\ [][NextReconcile]_vars

(***************************************************************************)
(* Properties of the reconciler, checked under SpecReconcile.              *)
(***************************************************************************)
\* C2: no two messages of the stored list have the same signature.
C2_NoDuplicateSignature ==
  \A i, j \in 1..Len(CURRENT_MESSAGES) :
    i # j => signature(CURRENT_MESSAGES[i].role, CURRENT_MESSAGES[i].content)
             # signature(CURRENT_MESSAGES[j].role, CURRENT_MESSAGES[j].content)

\* C3: no path that appends candidates to a list (the append-mode scan,
\* onApiEvent) ever appends, as a new entry, a candidate that is a strict
\* extension of the last entry of the same role.
C3_ExtensionUpdatesInPlace == extAppended = {}

\* C5: once ensureSessionId has handled a conversation change (the stored
\* conversation id is that of the URL), no stored message carries the
\* session of another conversation and no cached message comes from a
\* response of another conversation.
C5_NoMessageOfPreviousConversation ==
  CURRENT_CONV_ID = convUrl =>
    /\ \A i \in 1..Len(CURRENT_MESSAGES) : CURRENT_MESSAGES[i].session_id = convUrl
    /\ \A i \in 1..Len(apiMessagesCache) : apiMessagesCache[i].source_url = convUrl

\* C15: whatever was merged into it (chunks, response bodies, a fetched
\* transcript), no two entries of the network cache have the same
\* signature.
C15_MergedCacheHasNoDuplicate ==
  \A i, j \in 1..Len(apiMessagesCache) :
    i # j => signature(apiMessagesCache[i].role, apiMessagesCache[i].content)
             # signature(apiMessagesCache[j].role, apiMessagesCache[j].content)

\* C6: once the budget of the network cache was crossed, no candidate is
\* accepted any more, the progress record stays partial_budget_reached
\* once it was marked so, and the cache never exceeds the budget.
C6_BudgetIsFinal ==
  /\ ~acceptedAfterHit
  /\ markedPartial => progressRec.status = "partial_budget_reached"
  /\ Len(apiMessagesCache) <= MAX_API_CACHE_MESSAGES
  /\ TotalChars(apiMessagesCache) <= MAX_API_CACHE_TOTAL_CHARS

(***************************************************************************)
(* The progress channel with its clock (SpecProgress): who writes the      *)
(* progress record, and when.  clock.now is Date.now(); the storage calls  *)
(* of one setCaptureProgress take no time on this clock.  clock.writes     *)
(* keeps the times of the last two writes of the record, whose updatedAt   *)
(* is the time of the last one.  The capture phases of runSnapshotJob are  *)
(* one position here, "capture": what matters is which emissions are       *)
(* forced, which are throttled and which bypass emitCaptureProgress.       *)
(***************************************************************************)
\* chrome.storage.local.set of the record at clock.now: nothing is written
\* in a dead context (the get throws, setCaptureProgress swallows it)
Written(c) ==
  IF chromeAlive
  THEN [c EXCEPT !.writes = IF Len(@) < 2 THEN Append(@, c.now) ELSE <<@[2], c.now>>]
  ELSE c

\* the test of emitCaptureProgress (part_003:258)
Throttled(c, force) == ~force /\ c.now - c.lastProgressWriteAt < ThrottleMs

\* emitCaptureProgress(patch, force) (part_003:256-261) on the clock
emitCaptureProgress(c, force) ==
  IF Throttled(c, force) THEN c ELSE Written([c EXCEPT !.lastProgressWriteAt = c.now])

\* the record after emitCaptureProgress(patch, force) called before clock c
RecordAfterEmit(c, rec, patch, force) ==
  IF Throttled(c, force) \/ ~chromeAlive THEN rec ELSE SetCaptureProgress(rec, patch)

\* (the test of the interval callback inverted)
HeartbeatWrites_Inverted == captureIdActive = Null

\* the interval callback of startProgressHeartbeat writes unless no capture
\* was ever started (part_003:87)
HeartbeatWrites == captureIdActive # Null

\* the interval of startProgressHeartbeat is due
HeartbeatDue == progressHeartbeatTimer /\ clock.now - clock.beatAt >= HeartbeatMs

clockFrame == <<provider, deepCaptureInProgress, jobStrategy, lastSnapshot, storedLen, apiLen,
                jobErr, hyd, dc, scrollPos, mutScan, obsVars, lateWrites, reconVars, gr, pick, gen, seal, lsn, poll, dd, ins, ens>>

\* startSnapshotJob is accepted (part_003:3257-3265): the listener forces
\* a starting record, runSnapshotJob raises the mutex, arms the heartbeat
\* and forces a starting record of its own (379-385)
StartSnapshotJobAt ==
  /\ chromeAlive
  /\ ~StartRefused
  /\ jobPc = "idle"
  /\ captureIdActive' = CapId(1)
  /\ snapshotJobRunning' = TRUE
  /\ progressHeartbeatTimer' = TRUE
  /\ LET patch == Patch(CapId(1), "starting", "starting")
         c1 == emitCaptureProgress(clock, TRUE)
         c2 == emitCaptureProgress([c1 EXCEPT !.beatAt = clock.now], TRUE)
     IN /\ clock' = c2
        /\ progressRec' = SetCaptureProgress(NoProgress, patch)
  /\ jobPc' = "capture"
  /\ UNCHANGED <<chromeAlive, observer, debounceTimer, rl4ContextInvalidated, clockFrame>>

\* a phase of the capture begins: runSnapshotJob forces the record of the
\* phase (part_003:396, 436, 453)
JobPhaseAt ==
  /\ jobPc = "capture"
  /\ \E phase \in {"fetch", "hydrate", "scan"} :
       /\ progressRec' = RecordAfterEmit(clock, progressRec,
                                         Patch(captureIdActive, phase, "capturing"), TRUE)
       /\ clock' = emitCaptureProgress(clock, TRUE)
  /\ UNCHANGED <<chromeAlive, captureIdActive, snapshotJobRunning, progressHeartbeatTimer,
                 jobPc, observer, debounceTimer, rl4ContextInvalidated, clockFrame>>

\* a scan returns, in a job or from the page observer: its emission goes
\* through the throttle (part_003:2477, 2544, 2577)
ScanEmitAt ==
  /\ \E phase \in {"scan", "scan_append"} :
       progressRec' = RecordAfterEmit(clock, progressRec,
                                      Patch(captureIdActive, phase, "capturing"), FALSE)
  /\ clock' = emitCaptureProgress(clock, FALSE)
  /\ UNCHANGED <<chromeAlive, captureIdActive, snapshotJobRunning, progressHeartbeatTimer,
                 jobPc, observer, debounceTimer, rl4ContextInvalidated, clockFrame>>

\* the capture is over: the snapshot record is forced (part_003:489)
JobSnapshotAt ==
  /\ jobPc = "capture"
  /\ progressRec' = RecordAfterEmit(clock, progressRec,
                                    Patch(captureIdActive, "snapshot", "generating"), TRUE)
  /\ clock' = emitCaptureProgress(clock, TRUE)
  /\ jobPc' = "generate"
  /\ UNCHANGED <<chromeAlive, captureIdActive, snapshotJobRunning, progressHeartbeatTimer,
                 observer, debounceTimer, rl4ContextInvalidated, clockFrame>>

\* the terminal record is forced, done or error (part_003:517, 533), and
\* the outer finally stops the heartbeat (546-549)
JobEndAt ==
  /\ jobPc \in {"capture", "generate"}
  /\ \E phase \in {"done", "error"} :
       /\ phase = "done" => jobPc = "generate"
       /\ progressRec' = RecordAfterEmit(clock, progressRec,
                                         Patch(captureIdActive, phase, phase), TRUE)
  /\ clock' = emitCaptureProgress(clock, TRUE)
  /\ snapshotJobRunning' = FALSE
  /\ progressHeartbeatTimer' = FALSE
  /\ jobPc' = "idle"
  /\ UNCHANGED <<chromeAlive, captureIdActive, observer, debounceTimer, rl4ContextInvalidated,
                 clockFrame>>

\* the interval fires (part_003:85-89): setCaptureProgress({}) bypasses the
\* throttle and refreshes updatedAt
HeartbeatAt ==
  /\ HeartbeatDue
  /\ clock' = IF HeartbeatWrites THEN Written([clock EXCEPT !.beatAt = clock.now])
                                 ELSE [clock EXCEPT !.beatAt = clock.now]
  /\ UNCHANGED <<chromeAlive, captureIdActive, snapshotJobRunning, progressHeartbeatTimer,
                 progressRec, jobPc, observer, debounceTimer, rl4ContextInvalidated, clockFrame>>

\* a conversation chunk reaches onApiEvent: setCaptureProgress is called
\* directly (part_003:1087, 1146-1156); ensureSessionId throws in a dead
\* context
ApiChunkAt ==
  /\ chromeAlive
  /\ captureIdActive' = IF captureIdActive = Null THEN "cap-now" ELSE captureIdActive
  /\ progressRec' = SetCaptureProgress(progressRec,
                                       Patch(captureIdActive', "api_capture", "capturing"))
  /\ clock' = Written(clock)
  /\ UNCHANGED <<chromeAlive, snapshotJobRunning, progressHeartbeatTimer, jobPc, observer,
                 debounceTimer, rl4ContextInvalidated, clockFrame>>

\* time passes, unless the interval is due
TimePasses ==
  /\ clock.now < MaxNow
  /\ ~HeartbeatDue
  /\ clock' = [clock EXCEPT !.now = clock.now + 1]
  /\ UNCHANGED <<chromeAlive, captureIdActive, snapshotJobRunning, progressHeartbeatTimer,
                 progressRec, jobPc, observer, debounceTimer, rl4ContextInvalidated, clockFrame>>

\* the extension is reloaded
InvalidateAt ==
  /\ chromeAlive
  /\ chromeAlive' = FALSE
  /\ UNCHANGED <<captureIdActive, snapshotJobRunning, progressHeartbeatTimer, progressRec,
                 jobPc, observer, debounceTimer, rl4ContextInvalidated, clock, clockFrame>>

\* a scan in flight meets the dead context: its catch block runs
\* softShutdown (part_003:2584-2588)
ScanShutdownAt ==
  /\ ~chromeAlive
  /\ ~rl4ContextInvalidated
  /\ softShutdown
  /\ UNCHANGED <<chromeAlive, captureIdActive, snapshotJobRunning, progressRec, jobPc, clock,
                 clockFrame>>

InitProgress == JobOff /\ ReconcileOff /\ gr = GrIdle /\ clock = ClockInit /\ pick = PickInit /\ gen = GenInit /\ seal = SealInit /\ lsn = ListenerInit /\ poll = PollInit /\ dd = DedupInit /\ ins = InsightsInit /\ ens = EnsureInit

NextProgress ==
  \/ StartSnapshotJobAt
  \/ JobPhaseAt
  \/ ScanEmitAt
  \/ JobSnapshotAt
  \/ JobEndAt
  \/ HeartbeatAt
  \/ ApiChunkAt
  \/ TimePasses
  \/ InvalidateAt
  \/ ScanShutdownAt

SpecProgress == InitProgress /\ [][NextProgress]_vars

(***************************************************************************)
(* Properties of the progress channel, checked under SpecProgress.         *)
(***************************************************************************)
\* C12: any two consecutive writes of the progress record are at least one
\* throttle window (250 ms) apart.
C12_WritesRateLimited ==
  Len(clock.writes) = 2 => clock.writes[2] - clock.writes[1] >= ThrottleMs

\* the record was last written this long ago
SinceLastWrite == clock.now - clock.writes[Len(clock.writes)]

\* a job is between its accepted start and its terminal record
JobUnderWay == snapshotJobRunning /\ jobPc # "idle"

pickFrame == <<envVars, observer, debounceTimer, progressHeartbeatTimer, deepCaptureInProgress,
               captureIdActive, snapshotJobRunning, rl4ContextInvalidated, storeVars, jobErr,
               hyd, dc, scrollPos, mutScan, obsVars, lateWrites, convUrl, CURRENT_CONV_ID,
               CURRENT_SESSION_ID, procs, storageQ, netInflight, scenario, ghostVars, gr, clock, gen, seal, lsn, poll, dd, ins, ens>>

\* adapter a has produced list
Reported(a, list) ==
  [pick EXCEPT !.reported[a] = Cardinality(Signatures(list)),
               !.produced = @ \cup Signatures(list)]

\* runSnapshotJob is started on a ChatGPT tab and calls
\* tryFetchChatGPTConversation (part_003:390-393)
PickJobStart ==
  /\ jobPc = "idle"
  /\ pick.messages = <<>>
  /\ jobPc' = "fetch"
  /\ UNCHANGED <<jobStrategy, CURRENT_MESSAGES, apiMessagesCache, pick, pickFrame>>

\* the interceptor delivers a conversation chunk while the job captures:
\* onApiEvent merges it into the cache (part_003:1093-1135)
PickApiChunk ==
  /\ jobPc \in {"idle", "fetch", "embedded", "dom"}
  /\ pick.messages = <<>>
  /\ \E messages \in Payloads :
       LET r == ChunkMerge(apiMessagesCache, messages, convUrl, convUrl)
       IN /\ apiMessagesCache' = r.cache
          /\ pick' = Reported("network", r.cache)
  /\ UNCHANGED <<jobPc, jobStrategy, CURRENT_MESSAGES, pickFrame>>

\* the surgical fetch answers (part_003:1309-1343, 394-416): with messages
\* the cache becomes the fetched list and the page is not captured
PickFetch ==
  /\ jobPc = "fetch"
  /\ \E mapped \in Payloads \cup {<<>>} :
       IF mapped # <<>>
       THEN /\ apiMessagesCache' = FetchedCache(mapped, convUrl, convUrl)
            /\ pick' = Reported("fetch", mapped)
            /\ jobStrategy' = "chatgpt_surgical"
            /\ jobPc' = "pick"
       ELSE /\ jobStrategy' = "dom"
            /\ jobPc' = "embedded"
            /\ UNCHANGED <<apiMessagesCache, pick>>
  /\ UNCHANGED <<CURRENT_MESSAGES, pickFrame>>

\* tryExtractChatGPTEmbeddedState (part_003:1592-1624): the largest
\* extraction of the candidates replaces the cache
PickEmbedded ==
  /\ jobPc = "embedded"
  /\ \E candidate \in Payloads \cup {<<>>} :
       LET best == ExtractBody(candidate)
       IN IF best # <<>>
          THEN /\ apiMessagesCache' = CapCache([i \in 1..Len(best) |->
                                         Cached(best[i].role, best[i].content, convUrl, convUrl, i)])
               /\ pick' = Reported("embedded", best)
          ELSE UNCHANGED <<apiMessagesCache, pick>>
  /\ jobPc' = "dom"
  /\ UNCHANGED <<jobStrategy, CURRENT_MESSAGES, pickFrame>>

\* hydrateChatHistory and deepCaptureConversation return (part_003:433-467):
\* the page messages they accumulated are in CURRENT_MESSAGES
PickDom ==
  /\ jobPc = "dom"
  /\ \E page \in Payloads \cup {<<>>} :
       LET next == AppendNext(CURRENT_MESSAGES, page, convUrl).next
       IN /\ CURRENT_MESSAGES' = next
          /\ pick' = Reported("dom", next)
  /\ jobPc' = "pick"
  /\ UNCHANGED <<jobStrategy, apiMessagesCache, pickFrame>>

\* Pick best message source (part_003:473-477)
BestSource(apiMsgs, domMsgs) == IF Len(apiMsgs) >= Len(domMsgs) THEN apiMsgs ELSE domMsgs

JobPickMessages ==
  /\ jobPc = "pick"
  /\ pick' = [pick EXCEPT !.messages = BestSource(apiMessagesCache, CURRENT_MESSAGES)]
  /\ jobPc' = "picked"
  /\ UNCHANGED <<jobStrategy, CURRENT_MESSAGES, apiMessagesCache, pickFrame>>

InitPick == JobOff /\ ReconcileOff /\ gr = GrIdle /\ clock = ClockInit /\ pick = PickInit /\ gen = GenInit /\ seal = SealInit /\ lsn = ListenerInit /\ poll = PollInit /\ dd = DedupInit /\ ins = InsightsInit /\ ens = EnsureInit

NextPick ==
  \/ PickJobStart
  \/ PickApiChunk
  \/ PickFetch
  \/ PickEmbedded
  \/ PickDom
  \/ JobPickMessages

SpecPick == InitPick /\ [][NextPick]_vars

(***************************************************************************)
(* Properties of the choice, checked under SpecPick.                       *)
(***************************************************************************)
\* the largest count an adapter reported
RichestCount ==
  CHOOSE n \in {pick.reported[a] : a \in Adapters} :
    \A a \in Adapters : pick.reported[a] <= n

\* the adapters that produced data
Productive == {a \in Adapters : pick.reported[a] > 0}

\* C16: the list picked for the snapshot has, de-duplicated, exactly as
\* many entries as the richest adapter reported.
C16_FinalCountIsRichest ==
  jobPc = "picked" => Cardinality(Signatures(pick.messages)) = RichestCount

\* C17: when several adapters produced data and their counts are the same,
\* every message some adapter produced is in the list picked.
C17_CloseCountsAreMerged ==
  (/\ jobPc = "picked"
   /\ Cardinality(Productive) > 1
   /\ \A a \in Productive : pick.reported[a] = RichestCount)
  => pick.produced \subseteq Signatures(pick.messages)

(***************************************************************************)
(* The snapshot generator (SpecGen): runSnapshotJob from the transcript    *)
(* guardrail to the save of the artifact (part_003:370-511) and            *)
(* RL4SnapshotGenerator.generate (part_004:471-671).  A message is the     *)
(* length of its content; an artifact is the set of its top-level fields.  *)
(* Time is counted in units of a second.                                   *)
(***************************************************************************)
genFrame == <<envVars, flagVars, progressRec, storedLen, apiLen, jobVars, obsVars, lateWrites,
              reconVars, gr, clock, pick, seal, lsn, poll, dd, ins, ens>>

OutputModes == {"digest", "ultra", "ultra_plus"}
UltraModes == {"ultra", "ultra_plus"}
ExtractionStages == <<"topics", "decisions", "insights">>

\* the lists of messages handed to the generator
MessageLists == UNION {[1..n -> MsgLens] : n \in 0..MaxGenMsgs}

RECURSIVE SumLens(_)
\* messages.reduce((acc, m) => acc + String(m.content).length, 0)
SumLens(lens) == IF lens = <<>> THEN 0 ELSE lens[1] + SumLens(Tail(lens))

\* (the guardrail looking at the number of messages only)
Huge_CountOnly(lens) == Len(lens) > TRANSCRIPT_MAX_MESSAGES

\* Auto-disable transcript for huge captures (part_003:479-485)
Huge(lens) == Len(lens) > TRANSCRIPT_MAX_MESSAGES \/ SumLens(lens) > TRANSCRIPT_MAX_CHARS

\* the includeTranscript option runSnapshotJob hands to the generator
\* (part_003:376-377, 479-485)
JobIncludeTranscript(requested, outputMode, lens) ==
  /\ requested
  /\ outputMode \notin UltraModes
  /\ ~Huge(lens)

\* the fields of the digest object (part_004:569-629)
DigestFields(includeTranscript) ==
  {"_branding", "protocol", "version", "producer", "session_id", "timestamp", "context_state",
   "topics", "decisions", "insights", "context_summary", "timeline_summary", "timeline_macro",
   "cognitive_spine", "portable_memory", "conversation_fingerprint", "metadata", "checksum"}
  \cup (IF includeTranscript THEN {"transcript_compact", "transcript_format"} ELSE {})

\* the fields _ultraSemanticHints adds (part_004:991-998)
SemanticHintFields ==
  {"context_summary_ultra", "validation_checklist", "unknowns", "semantic_validation",
   "assumptions_candidates", "semantic_spine"}

\* the fields of the object _buildUltraSnapshot returns (part_004:737-781)
UltraFields(semanticHints) ==
  {"_branding", "protocol", "producer", "session_id", "timestamp", "context_state", "topics",
   "decisions", "timeline_macro", "portable_memory", "conversation_fingerprint", "metadata",
   "checksum"}
  \cup (IF semanticHints THEN SemanticHintFields ELSE {})

\* the fields of the object generatePartialSnapshot returns
\* (part_004:1421-1446): the keys of partialData are fields of base already
PartialFields ==
  {"version", "session_id", "timestamp", "partial", "partial_reason", "topics", "decisions",
   "insights", "context_summary", "messages", "metadata", "checksum"}

\* (the base object alone, partialData not spread over it)
generatePartialSnapshot_BaseOnly(reason, partialData) ==
  [partial |-> TRUE, partial_reason |-> reason, fields |-> PartialFields,
   stages |-> DOMAIN partialData, counts |-> NoneFound]

\* generatePartialSnapshot(reason, partialData)
generatePartialSnapshot(reason, partialData) ==
  [partial |-> TRUE, partial_reason |-> reason, fields |-> PartialFields,
   stages |-> DOMAIN partialData,
   counts |-> [s \in DOMAIN NoneFound |->
                 IF s \in DOMAIN partialData THEN partialData[s] ELSE NoneFound[s]]]

\* the number of entries an extraction finds in the messages: none in no
\* message (lib/extraction.js:234-289)
Findings(lens) == IF lens = <<>> THEN {0} ELSE 0..MaxFound

\* extract...().slice(0, max)
Sliced(k, max) == IF k > max THEN max ELSE k

\* the topics and decisions _buildUltraSnapshot keeps (part_004:698-724):
\* any part of those found; the ultra object has no insights
UltraCounts(found) ==
  {[topics |-> t, decisions |-> d, insights |-> 0] :
     t \in 0..found.topics, d \in 0..found.decisions}

\* the object generate returns past the extraction (part_004:625-671)
FullArtifact(options, counts) ==
  [partial |-> FALSE, partial_reason |-> Null, counts |-> counts,
   fields |-> IF options.outputMode \in UltraModes
              THEN UltraFields(options.outputMode = "ultra_plus")
              ELSE DigestFields(options.includeTranscript /\ options.outputMode \notin UltraModes),
   stages |-> {"topics", "decisions", "insights"}]

\* _checkDeadline (part_004:444-446)
checkDeadline(g) == g.now > g.deadline

\* the first stage at whose end the deadline had passed, with the stages
\* completed by then
LateAfter(g, now, stage) ==
  IF g.late = NotLate /\ now > g.deadline THEN [stage |-> stage, done |-> g.done \cup {stage}]
  ELSE g.late

\* runSnapshotJob reaches the generator: the guardrail, the constructor
\* with an empty budget and the call of generate (part_003:479-508,
\* part_004:424-438, 471-473)
GenConstruct ==
  /\ gen.pc = "none"
  /\ \E lens \in MessageLists, outputMode \in OutputModes, requested \in BOOLEAN,
        wantsSeal \in BOOLEAN :
       gen' = [gen EXCEPT !.pc = "topics",
                          !.lens = lens,
                          !.requested = requested,
                          !.wantsSeal = wantsSeal,
                          !.options = [includeTranscript |->
                                         JobIncludeTranscript(requested, outputMode, lens),
                                       outputMode |-> outputMode],
                          !.deadline = gen.now + GenBudget]
  /\ UNCHANGED <<lastSnapshot, genFrame>>

\* generate: the first check and extractTopics (part_004:475-479)
GenTopics ==
  /\ gen.pc = "topics"
  /\ IF checkDeadline(gen)
     THEN gen' = [gen EXCEPT !.pc = "returned",
                             !.artifact = generatePartialSnapshot("deadline_exceeded", <<>>)]
     ELSE \E d \in 0..MaxStage, k \in Findings(gen.lens) :
            gen' = [gen EXCEPT !.pc = "decisions",
                               !.now = @ + d,
                               !.found.topics = Sliced(k, maxTopics),
                               !.done = @ \cup {"topics"},
                               !.late = LateAfter(gen, gen.now + d, "topics")]
  /\ UNCHANGED <<lastSnapshot, genFrame>>

\* generate: the check after the topics and extractDecisions (part_004:481-485)
GenDecisions ==
  /\ gen.pc = "decisions"
  /\ IF checkDeadline(gen)
     THEN gen' = [gen EXCEPT !.pc = "returned",
                             !.artifact = generatePartialSnapshot("deadline_exceeded",
                                                   [s \in {"topics"} |-> gen.found[s]])]
     ELSE \E d \in 0..MaxStage, k \in Findings(gen.lens) :
            gen' = [gen EXCEPT !.pc = "insights",
                               !.now = @ + d,
                               !.found.decisions = Sliced(k, maxDecisions),
                               !.done = @ \cup {"decisions"},
                               !.late = LateAfter(gen, gen.now + d, "decisions")]
  /\ UNCHANGED <<lastSnapshot, genFrame>>

\* generate: the check after the decisions and extractInsights
\* (part_004:487-491)
GenInsights ==
  /\ gen.pc = "insights"
  /\ IF checkDeadline(gen)
     THEN gen' = [gen EXCEPT !.pc = "returned",
                             !.artifact = generatePartialSnapshot("deadline_exceeded",
                                          [s \in {"topics", "decisions"} |-> gen.found[s]])]
     ELSE \E d \in 0..MaxStage, k \in Findings(gen.lens) :
            gen' = [gen EXCEPT !.pc = "assemble",
                               !.now = @ + d,
                               !.found.insights = Sliced(k, maxInsights),
                               !.done = @ \cup {"insights"},
                               !.late = LateAfter(gen, gen.now + d, "insights")]
  /\ UNCHANGED <<lastSnapshot, genFrame>>

\* generate: the summary, the digest and, in the ultra modes, the ultra
\* object are built and returned (part_004:492-671)
GenAssemble ==
  /\ gen.pc = "assemble"
  /\ \E counts \in IF gen.options.outputMode \in UltraModes THEN UltraCounts(gen.found)
                     ELSE {gen.found} :
       gen' = [gen EXCEPT !.pc = "returned", !.artifact = FullArtifact(gen.options, counts)]
  /\ UNCHANGED <<lastSnapshot, genFrame>>

\* runSnapshotJob attaches the provenance, the checksum and the seal and
\* saves the artifact (part_003:508-515)
JobSaveSnapshot ==
  /\ gen.pc = "returned"
  /\ gen' = [gen EXCEPT !.pc = "saved",
                        !.artifact.fields = @ \cup {"metadata", "checksum"}
                                              \cup (IF gen.wantsSeal THEN {"signature"} ELSE {})]
  /\ lastSnapshot' = captureIdActive
  /\ UNCHANGED genFrame

InitGen == JobOff /\ ReconcileOff /\ gr = GrIdle /\ clock = ClockInit /\ pick = PickInit /\ gen = GenInit /\ seal = SealInit /\ lsn = ListenerInit /\ poll = PollInit /\ dd = DedupInit /\ ins = InsightsInit /\ ens = EnsureInit

NextGen ==
  \/ GenConstruct
  \/ GenTopics
  \/ GenDecisions
  \/ GenInsights
  \/ GenAssemble
  \/ JobSaveSnapshot

SpecGen == InitGen /\ [][NextGen]_vars

(***************************************************************************)
(* Properties of the generator, checked under SpecGen.                     *)
(***************************************************************************)
\* generate has returned an artifact
Returned == gen.pc \in {"returned", "saved"}

\* C18: no artifact of an ultra or ultra_plus job over a capture with
\* messages, complete or partial, has a verbatim transcript field or a
\* per-message array.
C18_UltraHasNoTranscript ==
  (Returned /\ gen.options.outputMode \in UltraModes /\ gen.lens # <<>>)
  => gen.artifact.fields \cap {"transcript_compact", "messages"} = {}

C20_DeadlineGivesPartial ==
  (Returned /\ gen.late # NotLate)
  => /\ gen.artifact.partial
     /\ gen.artifact.partial_reason = "deadline_exceeded"
     /\ gen.artifact.stages = gen.late.done

\* the deadline elapsed after the topic extraction and before the decision
\* extraction: the check that follows the topics found it passed
ElapsedAfterTopics == Returned /\ gen.late.stage = "topics"

sealFrame == <<envVars, flagVars, storeVars, jobVars, obsVars, lateWrites, reconVars, gr, clock,
               pick, gen, lsn, poll, dd, ins, ens>>

\* tab t moves to pc with its snapshot and its key
TabAt(t, pc, snap, key) ==
  [seal.tabs EXCEPT ![t] = [pc |-> pc, snap |-> snap, key |-> key]]

\* calculateChecksum(snapshot): a digest of the content of the snapshot
calculateChecksum(snap) == <<snap.rev, snap.blocks>>

\* `checksum:${checksum}` (part_003:356)
SignedPayload(checksum) == <<"checksum:">> \o checksum

\* signChecksumDeviceOnly past the key (part_003:356-366)
Signature(checksum, key) ==
  [present |-> TRUE, signed_payload |-> SignedPayload(checksum), key_id |-> key]

\* runSnapshotJob receives the snapshot of generate, attaches the
\* provenance and computes the checksum; with wantsSeal it asks for the
\* signature (part_003:508-514)
SealJobChecksum(t) ==
  /\ seal.tabs[t].pc = "idle"
  /\ seal.revs < MaxSnapshots
  /\ \E wantsSeal \in BOOLEAN :
       LET content == [NoSnapshot EXCEPT !.present = TRUE, !.rev = seal.revs + 1]
           snapshot == [content EXCEPT !.checksum = calculateChecksum(content)]
       IN seal' = [seal EXCEPT !.revs = @ + 1,
                               !.tabs = TabAt(t, IF wantsSeal THEN "key_get" ELSE "save",
                                              snapshot, 0)]
  /\ UNCHANGED sealFrame

\* (a re-seal that never signs again)
WasSealed_Never(last) == FALSE

\* if (next.signature && typeof next.signature === 'object') (part_003:2167)
WasSealed(last) == last.signature.present

\* sealRl4BlocksIntoSnapshot reads the stored snapshot, merges the blocks
\* and recomputes the checksum (part_003:2147-2169); without a stored
\* snapshot it reports an error and returns
ResealGet(t) ==
  /\ seal.tabs[t].pc = "idle"
  /\ seal.reseals < MaxReseals
  /\ LET last == seal.stored
         merged == [last EXCEPT !.blocks = TRUE]
         next == [merged EXCEPT !.checksum = calculateChecksum(merged)]
     IN seal' = [seal EXCEPT !.reseals = @ + 1,
                             !.blocksStatus = IF ~last.present THEN "error" ELSE "captured",
                             !.resealing = IF ~last.present THEN @ ELSE @ \cup {t},
                             !.tabs = IF ~last.present THEN seal.tabs
                                      ELSE TabAt(t, IF WasSealed(next) THEN "key_get" ELSE "save",
                                                 next, 0)]
  /\ UNCHANGED sealFrame

\* getOrCreateDeviceSigningKey: the record of the store is read and, when
\* complete, returned (part_003:332-336)
KeyGet(t) ==
  /\ seal.tabs[t].pc = "key_get"
  /\ seal' = [seal EXCEPT !.tabs = IF seal.db # 0
                                   THEN TabAt(t, "sign", seal.tabs[t].snap, seal.db)
                                   ELSE TabAt(t, "key_gen", seal.tabs[t].snap, 0)]
  /\ UNCHANGED sealFrame

\* getOrCreateDeviceSigningKey: a key pair is generated and its public key
\* exported and hashed (part_003:338-347)
KeyGenerate(t) ==
  /\ seal.tabs[t].pc = "key_gen"
  /\ seal' = [seal EXCEPT !.made = @ + 1,
                          !.tabs = TabAt(t, "key_put", seal.tabs[t].snap, seal.made + 1)]
  /\ UNCHANGED sealFrame

\* getOrCreateDeviceSigningKey: the key is put in the store and returned
\* (part_003:348-349)
KeyPut(t) ==
  /\ seal.tabs[t].pc = "key_put"
  /\ seal' = [seal EXCEPT !.db = seal.tabs[t].key,
                          !.tabs = TabAt(t, "sign", seal.tabs[t].snap, seal.tabs[t].key)]
  /\ UNCHANGED sealFrame

\* signChecksumDeviceOnly signs the checksum with the key it was given and
\* the caller attaches the signature (part_003:356-366, 514, 2168)
Sign(t) ==
  /\ seal.tabs[t].pc = "sign"
  /\ LET tab == seal.tabs[t]
         signed == [tab.snap EXCEPT !.signature = Signature(tab.snap.checksum, tab.key)]
     IN seal' = [seal EXCEPT !.keyIds = @ \cup {tab.key},
                             !.tabs = TabAt(t, "save", signed, tab.key)]
  /\ UNCHANGED sealFrame

\* saveLastSnapshot (part_003:271-281, 516, 2171): nothing is set when the
\* JSON of the snapshot is longer than 1,500,000 characters
SaveSealed(t) ==
  /\ seal.tabs[t].pc = "save"
  /\ \E oversized \in BOOLEAN :
       seal' = [seal EXCEPT !.stored = IF oversized THEN @ ELSE seal.tabs[t].snap,
                            !.tabs = TabAt(t, IF t \in seal.resealing THEN "status" ELSE "idle",
                                           NoSnapshot, 0)]
  /\ UNCHANGED sealFrame

\* sealRl4BlocksIntoSnapshot after saveLastSnapshot: the status record is
\* set to sealed (part_003:2172-2178)
SealStatus(t) ==
  /\ seal.tabs[t].pc = "status"
  /\ seal' = [seal EXCEPT !.blocksStatus = "sealed",
                          !.resealing = @ \ {t},
                          !.tabs = TabAt(t, "idle", NoSnapshot, 0)]
  /\ UNCHANGED sealFrame

InitSeal == JobOff /\ ReconcileOff /\ gr = GrIdle /\ clock = ClockInit /\ pick = PickInit /\ gen = GenInit /\ seal = SealInit /\ lsn = ListenerInit /\ poll = PollInit /\ dd = DedupInit /\ ins = InsightsInit /\ ens = EnsureInit

NextSeal ==
  \E t \in Tabs :
    \/ SealJobChecksum(t)
    \/ ResealGet(t)
    \/ KeyGet(t)
    \/ KeyGenerate(t)
    \/ KeyPut(t)
    \/ Sign(t)
    \/ SaveSealed(t)
    \/ SealStatus(t)

SpecSeal == InitSeal /\ [][NextSeal]_vars

(***************************************************************************)
(* Properties of the seal, checked under SpecSeal.                         *)
(***************************************************************************)
\* C22: a stored snapshot with a signature has the checksum of its content,
\* and the signature signs `checksum:` followed by that checksum.
C22_SealSignsFinalChecksum ==
  (seal.stored.present /\ seal.stored.signature.present)
  => /\ seal.stored.checksum = <<seal.stored.rev, seal.stored.blocks>>
     /\ seal.stored.signature.signed_payload = <<"checksum:">> \o seal.stored.checksum

\* a sealed snapshot into which blocks were merged is stored, sealed again
C22_Witness ==
  /\ seal.stored.present
  /\ seal.stored.blocks
  /\ seal.stored.signature.present
  /\ seal.stored.signature.signed_payload = <<"checksum:", seal.stored.rev, TRUE>>

\* C23: the key pair is generated at most once, and every signature carries
\* the same key_id.
C23_OneKeyPerDevice ==
  /\ seal.made <= 1
  /\ Cardinality(seal.keyIds) <= 1

(***************************************************************************)
(* Further properties of the reconciler, checked under SpecReconcile.      *)
(***************************************************************************)
\* C24: a step that replaces the content of an entry of the stored list
\* (same position, same role, same session) replaces it by a content that
\* starts with the old one.
C24_InPlaceOnlyGrows ==
  [][\A i \in 1..Min(Len(CURRENT_MESSAGES), Len(CURRENT_MESSAGES')) :
       LET old == CURRENT_MESSAGES[i]
           new == CURRENT_MESSAGES'[i]
       IN (new.role = old.role /\ new.session_id = old.session_id /\ new.content # old.content)
          => startsWith(new.content, old.content)]_vars

(***************************************************************************)
(* Properties of the message ids, checked under SpecPick.                  *)
(***************************************************************************)
\* the ids of a list are pairwise distinct
IdsDistinct(list) ==
  \A i, j \in 1..Len(list) : list[i].id = list[j].id => i = j

\* the same message: role, content and session
SameMessage(m, n) ==
  m.role = n.role /\ m.content = n.content /\ m.session_id = n.session_id

\* every message of old that is still in new is there under its id
KeepsIds(old, new) ==
  \A i \in 1..Len(old) :
    (\E j \in 1..Len(new) : SameMessage(old[i], new[j]))
    => \E j \in 1..Len(new) : SameMessage(old[i], new[j]) /\ new[j].id = old[i].id

\* C25: every step leaves the ids of the stored list and of the network
\* cache pairwise distinct, and leaves each message that stays in its list
\* the id it had.
C25_IdsDistinctAndStable ==
  [][/\ IdsDistinct(CURRENT_MESSAGES')
     /\ IdsDistinct(apiMessagesCache')
     /\ KeepsIds(CURRENT_MESSAGES, CURRENT_MESSAGES')
     /\ KeepsIds(apiMessagesCache, apiMessagesCache')]_vars

(***************************************************************************)
(* Properties of the lists of the adapters, checked under SpecPick.        *)
(***************************************************************************)
\* the content is within the limit, or is a content cut at the limit and
\* followed by the marker
WithinCap(content) ==
  \/ Len(content) <= MAX_SINGLE_MESSAGE_CHARS
  \/ /\ Len(content) = MAX_SINGLE_MESSAGE_CHARS + 2
     /\ SubSeq(content, MAX_SINGLE_MESSAGE_CHARS + 1, Len(content)) = <<"\n", "#">>

\* C26: every message of the network cache and of the stored list has a
\* content within the per-message limit, or cut at the limit and ending
\* with the truncation marker.
C26_EveryContentCapped ==
  /\ \A i \in 1..Len(apiMessagesCache) : WithinCap(apiMessagesCache[i].content)
  /\ \A i \in 1..Len(CURRENT_MESSAGES) : WithinCap(CURRENT_MESSAGES[i].content)

(***************************************************************************)
(* The walk along the parents, step by step (SpecWalk), over every         *)
(* assignment of parents: a parent may be null (0), a node, the node       *)
(* itself, or a key that is not in the mapping (MaxNodes + 1).             *)
(***************************************************************************)
AnyParents == [Nodes -> [parent : 0..(MaxNodes + 1)]]

WalkInit ==
  gr \in [pc : {"start"}, mapping : AnyParents, current_node : 0..(MaxNodes + 1),
          cur : {0}, guard : {{}}, chainIds : {<<>>}]

\* if (currentNode && mapping[currentNode]) { let cur = currentNode; ...
WalkStart ==
  /\ gr.pc = "start"
  /\ gr' = IF gr.current_node # 0 /\ gr.current_node \in DOMAIN gr.mapping
           THEN [gr EXCEPT !.pc = "loop", !.cur = gr.current_node]
           ELSE [gr EXCEPT !.pc = "done"]
  /\ UNCHANGED <<orchestratorVars, reconVars, clock, pick, gen, seal, lsn, poll, dd, ins, ens>>

\* one turn of the loop: guard.add(cur); chainIds.push(cur); cur = parent
WalkStep ==
  /\ gr.pc = "loop"
  /\ Walks(gr.mapping, gr.cur, gr.guard, gr.chainIds)
  /\ gr' = [gr EXCEPT !.guard = @ \cup {gr.cur},
                      !.chainIds = Append(@, gr.cur),
                      !.cur = gr.mapping[gr.cur].parent]
  /\ UNCHANGED <<orchestratorVars, reconVars, clock, pick, gen, seal, lsn, poll, dd, ins, ens>>

\* the loop condition fails: chainIds.reverse()
WalkEnd ==
  /\ gr.pc = "loop"
  /\ ~Walks(gr.mapping, gr.cur, gr.guard, gr.chainIds)
  /\ gr' = [gr EXCEPT !.pc = "done", !.chainIds = Reverse(@)]
  /\ UNCHANGED <<orchestratorVars, reconVars, clock, pick, gen, seal, lsn, poll, dd, ins, ens>>

InitWalk == JobOff /\ ReconcileOff /\ WalkInit /\ clock = ClockInit /\ pick = PickInit /\ gen = GenInit /\ seal = SealInit /\ lsn = ListenerInit /\ poll = PollInit /\ dd = DedupInit /\ ins = InsightsInit /\ ens = EnsureInit

NextWalk ==
  \/ WalkStart
  \/ WalkStep
  \/ WalkEnd

\* the loop is synchronous code: it runs as long as it can
SpecWalk == InitWalk /\ [][NextWalk]_vars /\ WF_vars(NextWalk)

\* C27: the walk visits no node twice, takes no more hops than the mapping
\* has nodes nor than the cap, and ends, whatever the parents are.
C27_WalkTerminates ==
  /\ [](/\ \A i, j \in 1..Len(gr.chainIds) : gr.chainIds[i] = gr.chainIds[j] => i = j
        /\ Len(gr.chainIds) <= MaxNodes
        /\ Len(gr.chainIds) <= ChainCap)
  /\ <>(gr.pc = "done")

\* a walk that met a cycle, or a parent that is no node, has ended
C27_Witness ==
  /\ gr.pc = "done"
  /\ gr.chainIds # <<>>
  /\ LET top == gr.mapping[gr.chainIds[1]].parent
     IN top # 0 /\ (top \notin Nodes \/ \E i \in 1..Len(gr.chainIds) : gr.chainIds[i] = top)

(***************************************************************************)
(* The onMessage listener of the content script (SpecListener): one action *)
(* per request.action, each with the response it sends.                    *)
(***************************************************************************)
listenerFrame == <<envVars, flagVars, storeVars, jobVars, obsVars, lateWrites, reconVars, gr, clock,
                   pick, gen, seal, poll, dd, ins, ens>>

\* error: { type: 'error', code, message, recovery? }
ErrorObject(code) == [kind |-> "object", code |-> code, message |-> "text"]

\* error: '...' or error: String(e?.message || e)
ErrorString == [kind |-> "string", code |-> Null, message |-> "text"]

\* the error member of the failure responses of finalizeRl4BlocksManual
ManualError == ErrorString

Ok(action) == [action |-> action, ok |-> TRUE, error |-> NoError]

Failure(action, error) == [action |-> action, ok |-> FALSE, error |-> error]

Asked == Len(lsn.responses) < MaxAsked

Respond(r, next) ==
  /\ lsn' = [next EXCEPT !.responses = Append(lsn.responses, r)]
  /\ UNCHANGED listenerFrame

ListenPing ==
  /\ Asked
  /\ Respond(Ok("ping"), lsn)

ListenArmRl4BlocksCapture ==
  /\ Asked
  /\ Respond(Ok("armRl4BlocksCapture"),
             [lsn EXCEPT !.rl4BlocksArmed = TRUE, !.rl4BlocksCaptured = FALSE,
                         !.blocksStatus = "awaiting"])

\* text: the pasted text holds the blocks, holds none, or the handler throws
ListenFinalizeRl4BlocksManual ==
  /\ Asked
  /\ \E text \in {"blocks", "none", "throws"} :
       CASE text = "blocks" ->
              Respond(Ok("finalizeRl4BlocksManual"),
                      [lsn EXCEPT !.rl4BlocksArmed = TRUE, !.rl4BlocksCaptured = TRUE,
                                  !.blocksStatus = "captured"])
         [] text = "none" ->
              Respond(Failure("finalizeRl4BlocksManual", ManualError), lsn)
         [] text = "throws" ->
              Respond(Failure("finalizeRl4BlocksManual", ManualError),
                      [lsn EXCEPT !.rl4BlocksArmed = TRUE, !.rl4BlocksCaptured = TRUE])

\* request.captureId, sender.tab.id (0: no tab) and payload.chunkIndex
ListenCaps == {"capA", "capB"}
ListenTabs == {0, 1}
ListenChunks == {0, 1}

\* the record of the stored progress after a write by the listener or the job
ListenerProgress(cap, tab, status) ==
  [captureId |-> cap, tabId |-> tab, status |-> status, updatedAt |-> 0]

\* (the identifier assigned before the test of the mutex)
StartLocals_Assigning(l, cap, tab) ==
  [l EXCEPT !.captureIdActive = cap, !.chatgptChunkSeen = {}]

\* startSnapshotJob up to the test of snapshotJobRunning: provider and cap
\* are locals, no variable of the script is assigned.
StartLocals(l, cap, tab) == l

\* startSnapshotJob after the test: the assignments, the progress record of
\* the new job, and runSnapshotJob up to its first await.
AcceptStart(l, cap, tab) ==
  [l EXCEPT !.captureIdActive = cap, !.chatgptChunkSeen = {}, !.jobTabId = tab,
            !.jobStrategy = Null, !.progress = ListenerProgress(cap, tab, "starting"),
            !.snapshotJobRunning = TRUE]

ListenStartSnapshotJob ==
  /\ Asked
  /\ \E cap \in ListenCaps, tab \in ListenTabs :
       LET l == StartLocals(lsn, cap, tab)
       IN IF l.snapshotJobRunning
          THEN Respond(Failure("startSnapshotJob", ErrorObject("JOB_ALREADY_RUNNING")), l)
          ELSE Respond(Ok("startSnapshotJob"), AcceptStart(l, cap, tab))

\* runSnapshotJob chooses its strategy
ListenJobStrategy ==
  /\ lsn.snapshotJobRunning
  /\ lsn.jobStrategy = Null
  /\ \E st \in {"chatgpt_surgical", "dom"} :
       lsn' = [lsn EXCEPT !.jobStrategy = st,
                          !.progress = ListenerProgress(lsn.captureIdActive, lsn.jobTabId,
                                                        "capturing")]
  /\ UNCHANGED listenerFrame

\* onApiEvent, chatgpt_conversation_chunk: the chunk index joins the seen set
ListenChunk ==
  /\ \E chunkIndex \in ListenChunks \ lsn.chatgptChunkSeen :
       LET cap == IF lsn.captureIdActive = Null THEN "cap-now" ELSE lsn.captureIdActive
       IN lsn' = [lsn EXCEPT !.captureIdActive = cap,
                             !.chatgptChunkSeen = @ \cup {chunkIndex},
                             !.progress = [@ EXCEPT !.captureId = cap,
                                                    !.status = "capturing"]]
  /\ UNCHANGED listenerFrame

\* runSnapshotJob ends: the done record, finally { snapshotJobRunning = false }
ListenJobEnds ==
  /\ lsn.snapshotJobRunning
  /\ lsn' = [lsn EXCEPT !.snapshotJobRunning = FALSE,
                        !.progress = ListenerProgress(lsn.captureIdActive, lsn.jobTabId,
                                                      "done")]
  /\ UNCHANGED listenerFrame

\* openInpagePanel() returns or throws into the catch of the listener
ListenOpenRl4InpagePanel ==
  /\ Asked
  /\ \E throws \in BOOLEAN :
       IF throws
       THEN Respond(Failure("openRl4InpagePanel", ErrorObject("CONTENT_SCRIPT_ERROR")), lsn)
       ELSE Respond(Ok("openRl4InpagePanel"), lsn)

\* the response of getMessages on a share page of ChatGPT or Gemini
ShareDomResponse(wantsDeep, hasApi, dom, empty, failed) ==
  IF hasApi /\ ~wantsDeep THEN Ok("getMessages")
  ELSE IF dom = "throws" THEN Failure("getMessages", ErrorObject(failed))
  ELSE IF dom = "none" /\ ~hasApi THEN Failure("getMessages", ErrorObject(empty))
  ELSE Ok("getMessages")

\* the response of getMessages on the share page of another provider
ShareSnapshotResponse(wantsDeep, dom, share) ==
  IF share = "some" THEN Ok("getMessages")
  ELSE IF wantsDeep /\ dom = "some" THEN Ok("getMessages")
  ELSE IF share = "none" THEN Failure("getMessages", ErrorObject("SHARE_SNAPSHOT_EMPTY"))
  ELSE Failure("getMessages", ErrorObject("SHARE_SNAPSHOT_FETCH_FAILED"))

getMessagesResponse(isShare, prov, wantsDeep, hasApi, dom, share, storage) ==
  IF isShare
  THEN CASE prov = "chatgpt" ->
              ShareDomResponse(wantsDeep, hasApi, dom, "SHARE_DOM_EMPTY", "SHARE_DOM_FAILED")
         [] prov = "gemini" ->
              ShareDomResponse(wantsDeep, hasApi, dom, "GEMINI_SHARE_EMPTY", "GEMINI_SHARE_FAILED")
         [] OTHER -> ShareSnapshotResponse(wantsDeep, dom, share)
  ELSE IF storage = "fails"
       THEN Failure("getMessages", ErrorObject("STORAGE_READ_FAILED"))
       ELSE Ok("getMessages")

ListenGetMessages ==
  /\ Asked
  /\ \E isShare \in BOOLEAN, prov \in Providers, wantsDeep \in BOOLEAN, hasApi \in BOOLEAN,
        dom \in {"some", "none", "throws"}, share \in {"some", "none", "fails"},
        storage \in {"ok", "fails"}, cap \in ListenCaps :
       Respond(getMessagesResponse(isShare, prov, wantsDeep, hasApi, dom, share, storage),
               [lsn EXCEPT !.captureIdActive = cap, !.chatgptChunkSeen = {},
                           !.progress = [captureId |-> cap, tabId |-> 0,
                                         status |-> "starting", updatedAt |-> 0]])

InitListener == JobOff /\ ReconcileOff /\ gr = GrIdle /\ clock = ClockInit /\ pick = PickInit /\ gen = GenInit /\ seal = SealInit /\ lsn = ListenerInit /\ poll = PollInit /\ dd = DedupInit /\ ins = InsightsInit /\ ens = EnsureInit

NextListener ==
  \/ ListenPing
  \/ ListenArmRl4BlocksCapture
  \/ ListenFinalizeRl4BlocksManual
  \/ ListenStartSnapshotJob
  \/ ListenJobStrategy
  \/ ListenChunk
  \/ ListenJobEnds
  \/ ListenOpenRl4InpagePanel
  \/ ListenGetMessages

SpecListener == InitListener /\ [][NextListener]_vars

\* C28: every failure response (ok: false) carries an error object with a
\* machine-readable code and a human-readable message.
C28_FailuresCarryCode ==
  \A i \in 1..Len(lsn.responses) :
    ~lsn.responses[i].ok =>
      /\ lsn.responses[i].error.kind = "object"
      /\ lsn.responses[i].error.code # Null
      /\ lsn.responses[i].error.message # Null

\* C37: a startSnapshotJob request refused with JOB_ALREADY_RUNNING changes
\* nothing: captureIdActive, jobTabId, jobStrategy, the seen-chunk set and the
\* stored progress record are as before, and the job goes on running.
C37_RefusalChangesNothing ==
  [][(/\ Len(lsn'.responses) = Len(lsn.responses) + 1
      /\ lsn'.responses[Len(lsn'.responses)].action = "startSnapshotJob"
      /\ ~lsn'.responses[Len(lsn'.responses)].ok)
     => /\ lsn'.responses[Len(lsn'.responses)].error.code = "JOB_ALREADY_RUNNING"
        /\ lsn' = [lsn EXCEPT !.responses = lsn'.responses]
        /\ lsn'.snapshotJobRunning]_vars

\* a request was refused while a job with a strategy and seen chunks ran
C37_Witness ==
  /\ Len(lsn.responses) = 2
  /\ lsn.responses[1] = Ok("startSnapshotJob")
  /\ lsn.responses[2] = Failure("startSnapshotJob", ErrorObject("JOB_ALREADY_RUNNING"))
  /\ lsn.snapshotJobRunning
  /\ lsn.jobStrategy = "dom"
  /\ lsn.chatgptChunkSeen = ListenChunks
  /\ lsn.jobTabId = 1

(***************************************************************************)
(* The popup polling the progress record (SpecPoll).  The popup is on tab  *)
(* 1 and asks for the capture capA; another tab's job writes records of    *)
(* its own capture capB into the same storage key.                         *)
(***************************************************************************)
pollFrame == <<envVars, flagVars, storeVars, jobVars, obsVars, lateWrites, reconVars, gr, clock,
               pick, gen, seal, lsn, dd, ins, ens>>

PollStep(next) == poll' = next /\ UNCHANGED pollFrame

\* generateBtn click: startProgressPoll(captureId, ...), then startSnapshotJob is sent
PopupGenerate ==
  /\ poll.job = "none"
  /\ PollStep([poll EXCEPT !.pollTimer = TRUE, !.captureId = "capA", !.stoppedOn = Null,
                           !.job = "asked"])

\* the response to startSnapshotJob: started, or refused and stopProgressPoll()
StartReply ==
  /\ poll.job = "asked"
  /\ \E ok \in BOOLEAN :
       IF ok
       THEN PollStep([poll EXCEPT !.job = "running",
                                  !.rec = [captureId |-> "capA", tabId |-> 1,
                                           status |-> "starting", updatedAt |-> poll.now]])
       ELSE PollStep([poll EXCEPT !.job = "refused", !.pollTimer = FALSE,
                                  !.stoppedOn = "refused"])

\* the job of the popup's capture writes its progress
JobWrites ==
  /\ poll.job = "running"
  /\ \E status \in {"running", "done", "error"} :
       PollStep([poll EXCEPT !.rec = [captureId |-> "capA", tabId |-> 1, status |-> status,
                                      updatedAt |-> poll.now],
                             !.job = IF status = "running" THEN "running" ELSE "ended"])

\* the tab of the job is closed or its context invalidated: no further write
JobDies ==
  /\ poll.job = "running"
  /\ PollStep([poll EXCEPT !.job = "dead"])

\* the job of another tab writes its own record under the same key
OtherJobWrites ==
  /\ poll.now < MaxPollNow
  /\ \E status \in {"running", "done"} :
       PollStep([poll EXCEPT !.rec = [captureId |-> "capB", tabId |-> 2, status |-> status,
                                      updatedAt |-> poll.now]])

\* the record the interval callback stops on
Stops(p) ==
  /\ p # NoRec
  /\ ~(poll.captureId # Null /\ p.captureId # Null /\ p.captureId # poll.captureId)
  /\ p.status \in {"done", "error"}

\* a unit of time (minutes) passes; the interval (250 ms) has fired before
PollClockTick ==
  /\ poll.now < MaxPollNow
  /\ ~(poll.pollTimer /\ Stops(poll.rec))
  /\ PollStep([poll EXCEPT !.now = @ + 1])

\* one run of the interval callback of startProgressPoll
PollTick ==
  /\ poll.pollTimer
  /\ IF Stops(poll.rec)
     THEN PollStep([poll EXCEPT !.pollTimer = FALSE, !.stoppedOn = poll.rec.status])
     ELSE PollStep(poll)

\* the popup is closed and opened again: DOMContentLoaded attaches to a job
\* under way on its tab whose record is fresh
PopupReopened ==
  /\ LET p == poll.rec
         isFresh == p # NoRec /\ poll.now - p.updatedAt < FRESH_MS
         matchesTab == p # NoRec /\ p.tabId = 1
     IN IF p # NoRec /\ p.status \notin {"done", "error"} /\ matchesTab /\ isFresh
        THEN PollStep([poll EXCEPT !.pollTimer = TRUE, !.captureId = p.captureId,
                                   !.stoppedOn = Null])
        ELSE PollStep([poll EXCEPT !.pollTimer = FALSE, !.captureId = Null,
                                   !.stoppedOn = Null])

InitPoll == JobOff /\ ReconcileOff /\ gr = GrIdle /\ clock = ClockInit /\ pick = PickInit /\ gen = GenInit /\ seal = SealInit /\ lsn = ListenerInit /\ poll = PollInit /\ dd = DedupInit /\ ins = InsightsInit /\ ens = EnsureInit

NextPoll ==
  \/ PopupGenerate
  \/ StartReply
  \/ JobWrites
  \/ JobDies
  \/ OtherJobWrites
  \/ PollClockTick
  \/ PollTick
  \/ PopupReopened

\* the interval fires, the time passes, the content script answers
SpecPoll ==
  /\ InitPoll /\ [][NextPoll]_vars
  /\ WF_vars(PollTick) /\ WF_vars(PollClockTick) /\ WF_vars(StartReply)

\* C29: a consumer polling the progress record eventually stops polling: on
\* a done or error record of its capture, or once the record's updatedAt
\* has stopped advancing for more than a few minutes.
C29_PollingEnds ==
  (poll.pollTimer /\ poll.rec # NoRec /\ poll.now - poll.rec.updatedAt > FRESH_MS)
    ~> ~poll.pollTimer

(***************************************************************************)
(* The two signature functions applied to two contents of one role         *)
(* (SpecSignature).                                                        *)
(***************************************************************************)
ddFrame == <<envVars, flagVars, storeVars, jobVars, obsVars, lateWrites, reconVars, gr, clock,
             pick, gen, seal, lsn, poll, ins, ens>>

SigChars == {"a", "b", "A", " "}

SigContents == UNION {[1..n -> SigChars] : n \in 0..MaxSigLen}

\* (content || '').replace(/\s+/g, ' ').trim().toLowerCase()
SigNormal(content) ==
  LET collapsed == trim(CollapseSpaces(content))
  IN [i \in 1..Len(collapsed) |-> toLowerCase(collapsed[i])]

\* signature of the earlier content script (content.js:1118-1121)
signatureLegacy(role, content) ==
  <<IF role = Null THEN "unknown" ELSE role, slice0(SigNormal(content), LegacySigHead)>>

DedupInputs ==
  dd \in [pc : {"input"}, by : {Null}, role : {"user", "assistant"}, a : SigContents,
          b : SigContents, sa : {<<>>}, sb : {<<>>}]

\* the reconciler and the extractors of part_003 sign the two contents
SignBoth ==
  /\ dd.pc = "input"
  /\ dd' = [dd EXCEPT !.pc = "signed", !.by = "part_003",
                      !.sa = signature(dd.role, dd.a), !.sb = signature(dd.role, dd.b)]
  /\ UNCHANGED ddFrame

\* the earlier content script signs the two contents
SignBothLegacy ==
  /\ dd.pc = "input"
  /\ dd' = [dd EXCEPT !.pc = "signed", !.by = "content.js",
                      !.sa = signatureLegacy(dd.role, dd.a), !.sb = signatureLegacy(dd.role, dd.b)]
  /\ UNCHANGED ddFrame

InitSignature == JobOff /\ ReconcileOff /\ gr = GrIdle /\ clock = ClockInit /\ pick = PickInit /\ gen = GenInit /\ seal = SealInit /\ lsn = ListenerInit /\ poll = PollInit /\ DedupInputs /\ ins = InsightsInit /\ ens = EnsureInit

NextSignature ==
  \/ SignBoth
  \/ SignBothLegacy

SpecSignature == InitSignature /\ [][NextSignature]_vars

\* the last k characters of a text
LastChars(c, k) == SubSeq(c, Max(0, Len(c) - k) + 1, Len(c))

\* C30: contents that are equal after lower-casing and whitespace collapsing
\* get equal signatures, and two contents of one role with the same opening
\* that differ in normalized length or in their tail get different ones.
C30_SignatureNotPrefixOnly ==
  dd.pc = "signed" =>
    LET na == SigNormal(dd.a)
        nb == SigNormal(dd.b)
    IN /\ na = nb => dd.sa = dd.sb
       /\ (/\ slice0(na, SigHead) = slice0(nb, SigHead)
           /\ (Len(na) # Len(nb) \/ LastChars(na, SigHead) # LastChars(nb, SigHead)))
          => dd.sa # dd.sb

\* the same statement of the signature of part_003 alone
C30_CurrentSignature == dd.by = "part_003" => C30_SignatureNotPrefixOnly

(***************************************************************************)
(* extractInsights (SpecInsights), one sentence per step.  A sentence is   *)
(* known by what it matches: one of the marker patterns, the heuristic     *)
(* pattern, both, or none (which includes the sentences skipped as empty   *)
(* or too long).                                                           *)
(***************************************************************************)
insFrame == <<envVars, flagVars, storeVars, jobVars, obsVars, lateWrites, reconVars, gr, clock,
              pick, gen, seal, lsn, poll, dd, ens>>

SentenceKinds == {"none", "marker", "heuristic", "both"}

InsightInputs ==
  ins \in [pc : {"loop"}, rest : UNION {[1..n -> SentenceKinds] : n \in 0..MaxSentences},
           insights : {0}]

\* insightPatterns.some((re) => re.test(str))
MatchesMarker(s) == s \in {"marker", "both"}

\* /^\s*(je\s+veux|objectif\s*:|goal\s*:|il\s+faut|we\s+need\s+to)\b/i.test(str)
MatchesHeuristic(s) == s \in {"heuristic", "both"}

\* the body of the loop on one sentence
InsightSentence ==
  /\ ins.pc = "loop"
  /\ ins.rest # <<>>
  /\ LET s == Head(ins.rest)
         pushed == IF MatchesMarker(s) THEN ins.insights + 1 ELSE ins.insights
     IN IF MatchesMarker(s) /\ pushed >= INSIGHTS_MAX
        THEN ins' = [ins EXCEPT !.pc = "returned", !.insights = pushed]
        ELSE ins' = [ins EXCEPT !.rest = Tail(@),
                                !.insights = IF pushed < INSIGHTS_MAX /\ MatchesHeuristic(s)
                                             THEN pushed + 1 ELSE pushed]
  /\ UNCHANGED insFrame

\* the loops are over: return insights
InsightsReturn ==
  /\ ins.pc = "loop"
  /\ ins.rest = <<>>
  /\ ins' = [ins EXCEPT !.pc = "returned"]
  /\ UNCHANGED insFrame

InitInsights == JobOff /\ ReconcileOff /\ gr = GrIdle /\ clock = ClockInit /\ pick = PickInit /\ gen = GenInit /\ seal = SealInit /\ lsn = ListenerInit /\ poll = PollInit /\ dd = DedupInit /\ InsightInputs /\ ens = EnsureInit

NextInsights ==
  \/ InsightSentence
  \/ InsightsReturn

SpecInsights == InitInsights /\ [][NextInsights]_vars

\* C31: extractInsights returns at most the maximum number of insights (10)
\* for every message list.
C31_AtMostMaxInsights == ins.pc = "returned" => ins.insights <= INSIGHTS_MAX

(***************************************************************************)
(* The terminal record of a job, checked under SpecProgress.               *)
(***************************************************************************)
\* C32: once a job has written its terminal record (done or error), the
\* stored record keeps that status and phase until the next job is started.
C32_TerminalRecordStays ==
  [][(/\ progressRec.status \in {"done", "error"}
      /\ ~snapshotJobRunning
      /\ ~snapshotJobRunning')
     => (/\ progressRec'.status = progressRec.status
         /\ progressRec'.phase = progressRec.phase)]_vars

(***************************************************************************)
(* The end of a job (SpecJobFair).  Each step of runSnapshotJob that the   *)
(* code itself completes is taken: its loops are bounded by their own      *)
(* clocks and counters, its sleeps are timers and the storage promises     *)
(* settle.  The answer of the network to the fetch of                      *)
(* tryFetchChatGPTConversation is awaited without a timeout or an abort    *)
(* signal (part_003:1307-1310): nothing says that it comes.                *)
(***************************************************************************)
JobSteps ==
  \/ JobStarting
  \/ JobEmitFetch
  \/ JobEmbedded
  \/ JobPageContextWait
  \/ JobEmitHydrate
  \/ HydCount
  \/ HydWait
  \/ HydScan
  \/ HydEval
  \/ HydSleep
  \/ HydFinalScan
  \/ JobEmitScan
  \/ DcSleep
  \/ DcTopScan
  \/ DcBefore
  \/ DcScan
  \/ DcAfter
  \/ JobPick
  \/ JobEmitSnapshot
  \/ JobGenerate
  \/ JobSave
  \/ JobEmitDone
  \/ JobEmitError

SpecJobFair == Init /\ [][Next]_vars /\ WF_vars(JobSteps)

\* C33: every accepted snapshot job eventually finishes and clears
\* snapshotJobRunning, so that a later startSnapshotJob is accepted.
C33_JobEnds == snapshotJobRunning ~> ~snapshotJobRunning

(***************************************************************************)
(* getMessages on a conversation page while the orchestrator runs          *)
(* (SpecGetMessages): the steps of a job, and one getMessages request that *)
(* arrives while a job runs.  lsn.deep says that the capture of the        *)
(* request is under way.                                                   *)
(***************************************************************************)
getFrame == <<envVars, observer, debounceTimer, progressHeartbeatTimer, snapshotJobRunning,
              jobStrategy, rl4ContextInvalidated, lastSnapshot, apiLen, jobVars, obsVars,
              reconVars, gr, clock, pick, gen, seal, poll, dd, ins, ens>>

\* the listener takes the request (part_003:3275-3290): captureIdActive is
\* set from the request, the progress record is cleared and set to the
\* starting record; with deep: true the capture raises
\* deepCaptureInProgress (3560-3563) and hydrates and scrolls, otherwise
\* one scan runs
GetMessagesHead ==
  /\ chromeAlive
  /\ snapshotJobRunning
  /\ lsn.responses = <<>>
  /\ ~lsn.deep
  /\ \E wantsDeep \in BOOLEAN :
       /\ captureIdActive' = "cap-get"
       /\ progressRec' = SetCaptureProgress(NoProgress,
                            Patch("cap-get", IF wantsDeep THEN "starting_deep" ELSE "starting",
                                  "starting"))
       /\ deepCaptureInProgress' = IF wantsDeep THEN TRUE ELSE deepCaptureInProgress
       /\ lsn' = [lsn EXCEPT !.deep = TRUE]
  /\ Writes({"CAPTURE_PROGRESS"})
  /\ UNCHANGED <<storedLen, getFrame>>

\* the capture of the request ends (3605-3607, 3612-3633): the finally
\* lowers deepCaptureInProgress, the done record is set and the response
\* is sent
GetMessagesEnd ==
  /\ lsn.deep
  /\ deepCaptureInProgress' = FALSE
  /\ progressRec' = ProgressAfter(Patch(captureIdActive, "done", "done"))
  /\ lsn' = [lsn EXCEPT !.deep = FALSE, !.responses = Append(@, Ok("getMessages"))]
  /\ Writes(ProgressKeys)
  /\ UNCHANGED <<captureIdActive, storedLen, getFrame>>

\* the requests and the steps of the job, on a page that stays as it is
\* and in a context that stays valid
NextGetMessages ==
  \/ StartSnapshotJob
  \/ JobFetch
  \/ JobSteps
  \/ GetMessagesHead
  \/ GetMessagesEnd

SpecGetMessages == Init /\ [][NextGetMessages]_vars

\* C34: while a snapshot job is running, a getMessages request handled at
\* the same time leaves captureIdActive, the stored progress record and
\* deepCaptureInProgress as the job set them.
C34_GetMessagesLeavesJobAlone ==
  [][(snapshotJobRunning /\ lsn' # lsn)
     => UNCHANGED <<captureIdActive, progressRec, deepCaptureInProgress>>]_vars

(***************************************************************************)
(* The stored list while a capture accumulates, checked under Spec.        *)
(***************************************************************************)
\* the job is between the start of hydration or deep capture and its read
\* of the stored list (part_003:436-474)
Accumulating ==
  jobPc \in {"hyd_count", "hyd_wait", "hyd_scan", "hyd_eval", "hyd_sleep", "hyd_final_scan",
             "emit_scan", "dc_sleep", "dc_top_scan", "dc_before", "dc_scan", "dc_after", "pick"}

\* the replace-mode scan of the debounce timer ends in this step
ReplaceScanEnds == mutScan = "scanning" /\ mutScan' = "none"

C36_EarlyEndOnlyAtBottom ==
  [][(jobPc = "dc_after" /\ jobPc' = "pick" /\ dc'.elapsed < DeepMaxTicks)
     => scrollPos >= MaxY]_vars
\* C38: when the progress record says done for a capture, the snapshot in
\* the last-snapshot slot was saved by that same job, never by an earlier one.
C38_DoneSnapshotIsThisJobs ==
  (progressRec.status = "done" /\ lastSnapshot # Null)
    => lastSnapshot = progressRec.captureId
\* C39: whenever the blocks status record says sealed, the snapshot in the
\* last-snapshot slot holds the blocks and the checksum computed over them.
C39_SealedMeansBlocksStored ==
  seal.blocksStatus = "sealed"
    => /\ seal.stored.present
       /\ seal.stored.blocks
       /\ seal.stored.checksum = calculateChecksum(seal.stored)
(***************************************************************************)
(* Overlapping calls of ensureSessionId (SpecEnsure).  The boot sequence   *)
(* and onApiEvent both call it; each call runs from await to await, and    *)
(* the calls interleave at their awaits.  A session id is the triple of    *)
(* `conv-${convId}-${ts}`.                                                 *)
(***************************************************************************)
ensFrame == <<envVars, flagVars, storeVars, jobVars, obsVars, lateWrites, reconVars, gr, clock,
              pick, gen, seal, lsn, poll, dd, ins>>

\* computeSessionId with the conversation of the URL and the time it reads
sessionIdAt(convId, ts) == <<"conv", convId, ts>>

\* String(current).match(/^conv-(.+?)-/): the conversation of a session id
storedConvFromSession(current) == current[2]

EnsStep(next) == ens' = next /\ UNCHANGED ensFrame

CallAt(c, call) == [ens.calls EXCEPT ![c] = call]

\* ensureSessionId up to its first await: the URL is read, the get is issued
EnsureStart(c) ==
  /\ ens.calls[c].pc = "idle"
  /\ ens.started < MaxEnsCalls
  /\ EnsStep([ens EXCEPT !.started = @ + 1,
                         !.calls = CallAt(c, [CallIdle EXCEPT !.pc = "get",
                                                              !.convId = ens.convUrl,
                                                              !.epoch = ens.epoch])])

\* ensureSessionId returns id to its caller
EnsureReturns(e, c, id) ==
  [e EXCEPT !.calls = [e.calls EXCEPT ![c] = CallIdle],
            !.returned = IF e.calls[c].epoch = e.epoch THEN @ \cup {id} ELSE @]

\* the get resolves and the call runs to its next await: a reset with a
\* fresh id, the first set of the conversation id, or the tail
EnsureGot(c) ==
  /\ ens.calls[c].pc = "get"
  /\ LET L == ens.calls[c]
         current == ens.CURRENT_SESSION_ID
         currentConv == ens.CURRENT_CONV_ID
         migrated == /\ current # NoSid
                     /\ currentConv = Null
                     /\ storedConvFromSession(current) # L.convId
         changed == currentConv # Null /\ currentConv # L.convId
     IN IF migrated \/ changed
        THEN EnsStep([ens EXCEPT !.calls = CallAt(c, [L EXCEPT !.pc = "reset_set",
                                                      !.sid = sessionIdAt(L.convId, ens.now)])])
        ELSE IF currentConv = Null
        THEN EnsStep([ens EXCEPT !.calls = CallAt(c, [L EXCEPT !.pc = "conv_set",
                                                      !.current = current])])
        ELSE IF current # NoSid
        THEN EnsStep(EnsureReturns(ens, c, current))
        ELSE EnsStep([ens EXCEPT !.calls = CallAt(c, [L EXCEPT !.pc = "sid_set",
                                                      !.sid = sessionIdAt(L.convId, ens.now)])])

\* the set of the reset resolves; updateSessionsIndex and return fresh
EnsureResetSet(c) ==
  /\ ens.calls[c].pc = "reset_set"
  /\ LET L == ens.calls[c]
         e == [ens EXCEPT !.CURRENT_CONV_ID = L.convId, !.CURRENT_SESSION_ID = L.sid,
                          !.created = IF L.epoch = ens.epoch THEN @ \cup {L.sid} ELSE @]
     IN EnsStep(EnsureReturns(e, c, L.sid))

\* the set of CURRENT_CONV_ID resolves; the tail of ensureSessionId
EnsureConvSet(c) ==
  /\ ens.calls[c].pc = "conv_set"
  /\ LET L == ens.calls[c]
         e == [ens EXCEPT !.CURRENT_CONV_ID = L.convId]
     IN IF L.current # NoSid
        THEN EnsStep(EnsureReturns(e, c, L.current))
        ELSE EnsStep([e EXCEPT !.calls = CallAt(c, [L EXCEPT !.pc = "sid_set",
                                                    !.sid = sessionIdAt(L.convId, ens.now)])])

\* the set of CURRENT_SESSION_ID resolves; updateSessionsIndex and return
EnsureSidSet(c) ==
  /\ ens.calls[c].pc = "sid_set"
  /\ LET L == ens.calls[c]
         e == [ens EXCEPT !.CURRENT_SESSION_ID = L.sid,
                          !.created = IF L.epoch = ens.epoch THEN @ \cup {L.sid} ELSE @]
     IN EnsStep(EnsureReturns(e, c, L.sid))

\* a millisecond passes
EnsureTick ==
  /\ ens.now < MaxEnsNow
  /\ EnsStep([ens EXCEPT !.now = @ + 1])

\* the user opens another conversation: what was returned and created for
\* the conversation left is forgotten
EnsureNavigate ==
  /\ ens.epoch < MaxNavigations
  /\ EnsStep([ens EXCEPT !.convUrl = IF @ = "c1" THEN "c2" ELSE "c1",
                         !.epoch = @ + 1, !.returned = {}, !.created = {}])

InitEnsure == JobOff /\ ReconcileOff /\ gr = GrIdle /\ clock = ClockInit /\ pick = PickInit /\ gen = GenInit /\ seal = SealInit /\ lsn = ListenerInit /\ poll = PollInit /\ dd = DedupInit /\ ins = InsightsInit /\ ens = EnsureInit

NextEnsure ==
  \/ \E c \in Callers :
       \/ EnsureStart(c)
       \/ EnsureGot(c)
       \/ EnsureResetSet(c)
       \/ EnsureConvSet(c)
       \/ EnsureSidSet(c)
  \/ EnsureTick
  \/ EnsureNavigate

SpecEnsure == InitEnsure /\ [][NextEnsure]_vars

\* C40: while the conversation is unchanged, the calls of ensureSessionId
\* that began in it return one session id, and at most one new session id
\* is created for it.
C40_OneSessionPerConversation ==
  /\ Cardinality(ens.returned) <= 1
  /\ Cardinality(ens.created) <= 1
====
